---- MODULE Spec2Model ----
(***************************************************************************)
(* Verification model of the C source analysis tools:                      *)
(*   Delete_Comment.py          remove_c_comments                          *)
(*   Get_CompileSwitchCode.py   CompileSwitchAnalyzer                      *)
(*   Get_Func_Call.py           extract_function_calls                     *)
(*   Get_Table.py               extract_tables                             *)
(*   Get_Magic_Number.py        extract_magic_numbers                      *)
(*   Get_Struct.py              CStructExtractor                           *)
(*   Get_Define.py              extract_defines                            *)
(*   Get_Struct_Value.py        StructConfigAnalyzer                       *)
(* Text is a sequence of one-character strings; a source file handed to    *)
(* the conditional-compilation expander is a sequence of lines.            *)
(***************************************************************************)
EXTENDS Integers, Sequences, FiniteSets, TLC

VARIABLES
    tool,          \* which script is running: "strip", "cases", "pre",
                   \* "calls", "tables", "magic", "struct",
                   \* "define", "values"; "table_loop", "define_loop",
                   \* "brace_loop": a loop taken one iteration per step
    pc,            \* position of the running script
    \* Delete_Comment.py, remove_c_comments
    code,          \* the argument `code`
    sub_result,    \* `result` after the re.sub of line 102
    result,        \* the local `result` of the running function: the text
                   \* remove_c_comments returns, or the list of lines
                   \* preprocess_code has emitted so far
    again,         \* remove_c_comments applied to its own output
    \* Get_CompileSwitchCode.py, CompileSwitchAnalyzer
    lines,         \* the lines of the file at self.source_path
    switches,      \* self.switches
    switch_lines,  \* self.switch_lines
    cases,         \* self.cases
    returned,      \* what the last call of generate_switch_cases returned
    gen_calls,     \* number of calls of generate_switch_cases so far
    gen_switches,  \* self.switches as the last call of generate_switch_cases
                   \* found it
    ext_calls,     \* number of calls of extract_compile_switches so far
    \* preprocess_code(code_lines, case)
    case,          \* the argument `case`
    stack,         \* the local `stack`
    skip_depth,    \* the local `skip_depth`
    scanned,       \* number of lines of code_lines the loop has taken
    open,          \* the conditional blocks of the input that are open at
                   \* the scan position, innermost last (the input's nesting,
                   \* whatever the function made of it)
    last,          \* the line the last iteration took to the test of line
                   \* 185, and what was seen there; NoLine after a directive
    wellformed,    \* no #else, #elif or #endif outside a block so far, at
                   \* most one #else per block and no #elif after it
    known,         \* every #if-family line so far is one of the four forms
                   \* the function evaluates
    saw_elif,      \* an #elif line was taken
    no_directive,  \* no directive line was taken so far
    \* Get_Func_Call.py, extract_function_calls
    content,       \* the text of the file, as tokens
    function_definitions,  \* the dict of extract_function_definitions, as
                   \* pairs <<name, body>> in the order of the dict
    function_calls,  \* the list of [caller, callee] rows written to the CSV
    \* Get_Table.py, extract_tables
    table_code,    \* the argument `code`, as lines
    tables,        \* the list find_table_declarations returns
    \* Get_Magic_Number.py, extract_magic_numbers
    magic_text,    \* the text of the file at file_path
    magic_lines,   \* `lines`, what file.readlines() returned
    magic_numbers, \* the list `magic_numbers`
    \* Get_Struct.py, CStructExtractor.extract_structs_from_file
    struct_source, \* the file at file_path, as the pieces it is made of
    struct_content,  \* `content`, what read_file returned
    structs,       \* the list `structs`
    \* Get_Define.py, extract_defines
    define_code,   \* `code`, as its lines
    define_definitions, \* the list `define_definitions`
    define_macros, \* the list `define_macros`
    \* Get_Struct_Value.py, parse_init_values and parse_array_init_values
    init_str,      \* the argument `init_str`
    members,       \* the argument `members`, as the member names
    member_values, \* the dict `member_values`
    array_elements, \* the list `array_elements`
    \* the loops of find_table_declarations, extract_defines and
    \* extract_function_definitions
    loop_i,        \* `i` (a line), `pos` (a character), from 1
    loop_count,    \* `brace_count`
    loop_start,    \* `start_pos`, the "{" of the match
    loop_block,    \* `table_lines`, `define_block`
    loop_matches,  \* `matches`, those the for loop has not finished with
    loop_found     \* `tables`, `defines`, `function_definitions`

stripVars == <<code, sub_result, again>>
caseVars == <<lines, switches, switch_lines, cases, returned, gen_calls,
              gen_switches, ext_calls>>
preVars == <<case, stack, skip_depth, scanned, open, last, wellformed, known,
             saw_elif, no_directive>>
callVars == <<content, function_definitions, function_calls>>
tableVars == <<table_code, tables>>
magicVars == <<magic_text, magic_lines, magic_numbers>>
structVars == <<struct_source, struct_content, structs>>
defineVars == <<define_code, define_definitions, define_macros>>
valueVars == <<init_str, members, member_values, array_elements>>
loopVars ==
    <<loop_i, loop_count, loop_start, loop_block, loop_matches, loop_found>>
extVars ==
    <<callVars, tableVars, magicVars, structVars, defineVars, valueVars,
      loopVars>>
vars == <<tool, pc, code, sub_result, result, again, lines, switches,
          switch_lines, cases, returned, gen_calls, gen_switches, ext_calls,
          case, stack,
          skip_depth, scanned, open, last, wellformed, known, saw_elif,
          no_directive,
          content, function_definitions, function_calls, table_code, tables,
          magic_text, magic_lines, magic_numbers,
          struct_source, struct_content, structs,
          define_code, define_definitions, define_macros,
          init_str, members, member_values, array_elements,
          loop_i, loop_count, loop_start, loop_block, loop_matches,
          loop_found>>

(***************************************************************************)
(* Bounds                                                                  *)
(***************************************************************************)
MaxLen == 5
MaxFileLines == 3
MaxCalls == 2
MaxLines == 5
MaxDepth == 3
MaxItems == 5
MaxTableLines == 5
MaxPieces == 5
MaxStructPieces == 5
MaxDefineLines == 4
MaxInitLen == 7
MaxLoopLines == 4
MaxLoopItems == 4

(***************************************************************************)
(* Characters                                                              *)
(***************************************************************************)
SLASH == "/"
STAR == "*"
DQUOTE == "\""
SQUOTE == "'"
BACKSLASH == "\\"
NEWLINE == "\n"
SPACE == " "
LETTER == "a"

Chars == {SLASH, STAR, DQUOTE, SQUOTE, BACKSLASH, NEWLINE, SPACE, LETTER}

TextsUpTo(n) == UNION {[1..k -> Chars] : k \in 0..n}

\* Python's \s restricted to the characters of the model
IsSpace(c) == c \in {NEWLINE, SPACE}

RECURSIVE CountNewlines(_)
CountNewlines(s) ==
    IF s = <<>> THEN 0
    ELSE (IF Head(s) = NEWLINE THEN 1 ELSE 0) + CountNewlines(Tail(s))

RECURSIVE Newlines(_)
Newlines(k) == IF k = 0 THEN <<>> ELSE <<NEWLINE>> \o Newlines(k - 1)

(***************************************************************************)
(* The pattern of remove_c_comments, matched at position i of s.           *)
(***************************************************************************)

\* "(?:[^"\\]|\\.)*"  and  '(?:[^'\\]|\\.)*' : j is the next position of the
\* body; the index of the closing quote, or 0 when the literal never closes.
\* A backslash and the character after it (any, DOTALL) are consumed as a pair.
RECURSIVE LiteralEnd(_, _, _)
LiteralEnd(s, j, q) ==
    IF j > Len(s) THEN 0
    ELSE IF s[j] = q THEN j
    ELSE IF s[j] = BACKSLASH
         THEN IF j + 1 <= Len(s) THEN LiteralEnd(s, j + 2, q) ELSE 0
    ELSE LiteralEnd(s, j + 1, q)

\* //.*?$ under MULTILINE|DOTALL: j is the next position after "//"; the lazy
\* body stops at the first position where $ matches, before a newline or at
\* the end of the text.  The index of the last character of the comment.
RECURSIVE LineCommentEnd(_, _)
LineCommentEnd(s, j) ==
    IF j > Len(s) \/ s[j] = NEWLINE THEN j - 1
    ELSE LineCommentEnd(s, j + 1)

\* A block comment that takes a missing closer for the end of the text.
RECURSIVE BlockCommentEndMissingMeansEnd(_, _)
BlockCommentEndMissingMeansEnd(s, j) ==
    IF j + 1 > Len(s) THEN Len(s)
    ELSE IF s[j] = STAR /\ s[j + 1] = SLASH THEN j + 1
    ELSE BlockCommentEndMissingMeansEnd(s, j + 1)

\* /\*.*?\*/ : j is the next position after "/*"; the index of the "/" of the
\* first "*/" found from j on, or 0 when there is none.
RECURSIVE BlockCommentEnd(_, _)
BlockCommentEnd(s, j) ==
    IF j + 1 > Len(s) THEN 0
    ELSE IF s[j] = STAR /\ s[j + 1] = SLASH THEN j + 1
    ELSE BlockCommentEnd(s, j + 1)

NoMatch == [kind |-> "none", last |-> 0]

\* The alternatives of the pattern in their order: group 1 (a double-quoted
\* string, a single-quoted literal), then group 2 (a line comment, a block
\* comment).  [kind, last]: what matched at i and the index of its last
\* character; NoMatch when nothing matches at i.
MatchAt(s, i) ==
    LET c == s[i]
        two == i + 1 <= Len(s)
    IN  IF c = DQUOTE /\ LiteralEnd(s, i + 1, DQUOTE) # 0
            THEN [kind |-> "string", last |-> LiteralEnd(s, i + 1, DQUOTE)]
        ELSE IF c = SQUOTE /\ LiteralEnd(s, i + 1, SQUOTE) # 0
            THEN [kind |-> "char", last |-> LiteralEnd(s, i + 1, SQUOTE)]
        ELSE IF c = SLASH /\ two /\ s[i + 1] = SLASH
            THEN [kind |-> "line", last |-> LineCommentEnd(s, i + 2)]
        ELSE IF c = SLASH /\ two /\ s[i + 1] = STAR
                /\ BlockCommentEnd(s, i + 2) # 0
            THEN [kind |-> "block", last |-> BlockCommentEnd(s, i + 2)]
        ELSE NoMatch

\* replace_comment: a literal is returned as it is, a block comment becomes
\* its newlines, a line comment the empty string.
replace_comment(s, i, m) ==
    IF m.kind \in {"string", "char"} THEN SubSeq(s, i, m.last)
    ELSE IF m.kind = "block"
         THEN Newlines(CountNewlines(SubSeq(s, i, m.last)))
    ELSE <<>>

\* re.sub(pattern, replace_comment, code): leftmost non-overlapping matches,
\* every unmatched character copied.
RECURSIVE SubFrom(_, _)
SubFrom(s, i) ==
    IF i > Len(s) THEN <<>>
    ELSE LET m == MatchAt(s, i)
         IN  IF m.kind = "none" THEN <<s[i]>> \o SubFrom(s, i + 1)
             ELSE replace_comment(s, i, m) \o SubFrom(s, m.last + 1)

RemoveComments(s) == SubFrom(s, 1)

\* The spans the scan of re.sub classifies: one token per match, and one
\* "text" token per unmatched character.
RECURSIVE TokensFrom(_, _)
TokensFrom(s, i) ==
    IF i > Len(s) THEN <<>>
    ELSE LET m == MatchAt(s, i)
         IN  IF m.kind = "none"
             THEN <<[kind |-> "text", from |-> i, to |-> i]>>
                      \o TokensFrom(s, i + 1)
             ELSE <<[kind |-> m.kind, from |-> i, to |-> m.last]>>
                      \o TokensFrom(s, m.last + 1)

Tokens(s) == TokensFrom(s, 1)

(***************************************************************************)
(* result = re.sub(r'\n\s*\n\s*\n', '\n\n', result)                        *)
(***************************************************************************)

\* the last index of the run of whitespace that starts at i
RECURSIVE SpaceRunEnd(_, _)
SpaceRunEnd(s, i) ==
    IF i + 1 <= Len(s) /\ IsSpace(s[i + 1]) THEN SpaceRunEnd(s, i + 1) ELSE i

\* the index of the last newline of s[i..e]; s[i] is a newline
LastNewline(s, i, e) ==
    CHOOSE k \in i..e : s[k] = NEWLINE /\ \A l \in (k + 1)..e : s[l] # NEWLINE

\* Without the \s* of the pattern: three adjacent newlines only.
RECURSIVE SquashAdjacentOnly(_, _)
SquashAdjacentOnly(s, i) ==
    IF i > Len(s) THEN <<>>
    ELSE IF i + 2 <= Len(s) /\ s[i] = NEWLINE /\ s[i + 1] = NEWLINE
              /\ s[i + 2] = NEWLINE
         THEN <<NEWLINE, NEWLINE>> \o SquashAdjacentOnly(s, i + 3)
    ELSE <<s[i]>> \o SquashAdjacentOnly(s, i + 1)

\* The pattern matches at a newline whose whitespace run holds at least three
\* newlines; both \s* are greedy, so the match ends at the run's last newline.
RECURSIVE SquashFrom(_, _)
SquashFrom(s, i) ==
    IF i > Len(s) THEN <<>>
    ELSE IF s[i] = NEWLINE
              /\ CountNewlines(SubSeq(s, i, SpaceRunEnd(s, i))) >= 3
         THEN <<NEWLINE, NEWLINE>>
                  \o SquashFrom(s, LastNewline(s, i, SpaceRunEnd(s, i)) + 1)
    ELSE <<s[i]>> \o SquashFrom(s, i + 1)

SquashBlankLines(s) == SquashFrom(s, 1)

remove_c_comments(s) == SquashBlankLines(RemoveComments(s))

(***************************************************************************)
(* Specification of the comment stripper: the input is any text of at most *)
(* MaxLen characters; the function is applied, then applied to its output. *)
(***************************************************************************)
StripIdle ==
    /\ code = <<>>
    /\ sub_result = <<>>
    /\ again = <<>>

CasesIdle ==
    /\ lines = <<>>
    /\ switches = {}
    /\ switch_lines = <<>>
    /\ cases = <<>>
    /\ returned = <<>>
    /\ gen_calls = 0
    /\ gen_switches = {}
    /\ ext_calls = 0

CallsIdle ==
    /\ content = <<>>
    /\ function_definitions = <<>>
    /\ function_calls = <<>>

TablesIdle ==
    /\ table_code = <<>>
    /\ tables = <<>>

MagicIdle ==
    /\ magic_text = <<>>
    /\ magic_lines = <<>>
    /\ magic_numbers = <<>>

StructIdle ==
    /\ struct_source = <<>>
    /\ struct_content = <<>>
    /\ structs = <<>>

DefineIdle ==
    /\ define_code = <<>>
    /\ define_definitions = <<>>
    /\ define_macros = <<>>

ValuesIdle ==
    /\ init_str = <<>>
    /\ members = <<>>
    /\ member_values = <<>>
    /\ array_elements = <<>>

LoopIdle ==
    /\ loop_i = 0
    /\ loop_count = 0
    /\ loop_start = 0
    /\ loop_block = <<>>
    /\ loop_matches = <<>>
    /\ loop_found = <<>>

ExtIdle ==
    /\ CallsIdle /\ TablesIdle /\ MagicIdle /\ StructIdle /\ DefineIdle
    /\ ValuesIdle /\ LoopIdle

PreIdle ==
    /\ case = <<>>
    /\ stack = <<>>
    /\ skip_depth = 0
    /\ scanned = 0
    /\ open = <<>>
    /\ last = <<>>
    /\ wellformed = TRUE
    /\ known = TRUE
    /\ saw_elif = FALSE
    /\ no_directive = TRUE

StripInit ==
    /\ tool = "strip"
    /\ pc = "input"
    /\ code \in TextsUpTo(MaxLen)
    /\ sub_result = <<>>
    /\ result = <<>>
    /\ again = <<>>
    /\ CasesIdle
    /\ PreIdle
    /\ ExtIdle

StripCall ==
    /\ tool = "strip" /\ pc = "input"
    /\ sub_result' = RemoveComments(code)
    /\ result' = SquashBlankLines(RemoveComments(code))
    /\ pc' = "stripped"
    /\ UNCHANGED <<tool, code, again>>
    /\ UNCHANGED <<caseVars, preVars, extVars>>

StripAgain ==
    /\ tool = "strip" /\ pc = "stripped"
    /\ again' = remove_c_comments(result)
    /\ pc' = "restripped"
    /\ UNCHANGED <<tool, code, sub_result, result>>
    /\ UNCHANGED <<caseVars, preVars, extVars>>

StripNext == StripCall \/ StripAgain

StripSpec == StripInit /\ [][StripNext]_vars

(***************************************************************************)
(* Properties of the comment stripper                                      *)
(***************************************************************************)
IsLiteral(t) == t.kind \in {"string", "char"}
IsComment(t) == t.kind \in {"line", "block"}

\* p occurs in s as a contiguous run
IsInfix(p, s) ==
    \E k \in 0..(Len(s) - Len(p)) : SubSeq(s, k + 1, k + Len(p)) = p

\* the scan of re.sub tries a match at position i (i lies in no earlier match)
Reached(s, i) == \E k \in 1..Len(Tokens(s)) : Tokens(s)[k].from = i

\* at i the text opens a block comment, a string or a char literal whose
\* closing delimiter is missing before the end of the text
OpensBlockComment(s, i) ==
    s[i] = SLASH /\ i + 1 <= Len(s) /\ s[i + 1] = STAR
NoBlockCloser(s, i) ==
    ~ \E k \in (i + 2)..(Len(s) - 1) : s[k] = STAR /\ s[k + 1] = SLASH
OpensLiteral(s, i) == s[i] \in {DQUOTE, SQUOTE}
UnterminatedAt(s, i) ==
    /\ Reached(s, i)
    /\ \/ OpensBlockComment(s, i) /\ NoBlockCloser(s, i)
       \/ OpensLiteral(s, i) /\ LiteralEnd(s, i + 1, s[i]) = 0
FirstUnterminatedAt(s, i) ==
    UnterminatedAt(s, i) /\ \A k \in 1..(i - 1) : ~ UnterminatedAt(s, k)

\* C1: stripping is idempotent: remove_c_comments applied to its own output
\* returns that output unchanged.
StripIdempotent == pc = "restripped" => again = result

\* C1 witness: a text from which a comment was removed, stripped twice.
StripIdempotentWitness ==
    /\ pc = "restripped"
    /\ result # code
    /\ \E k \in 1..Len(Tokens(code)) : IsComment(Tokens(code)[k])
    /\ again = result

\* C2: the output of remove_c_comments holds exactly as many newline
\* characters as its input.
NewlineCountPreserved ==
    pc = "stripped" => CountNewlines(result) = CountNewlines(code)

\* C3: every string and char literal the scan recognises appears character
\* for character in the output.
LiteralsVerbatim ==
    pc = "stripped" =>
        \A k \in 1..Len(Tokens(code)) :
            LET t == Tokens(code)[k]
            IN  IsLiteral(t) => IsInfix(SubSeq(code, t.from, t.to), result)

\* C4 as claimed: an opener whose closing delimiter is missing extends to the
\* end of the input: after the text before it, the comment-removal pass
\* yields only the newlines of an unterminated block comment (comment text),
\* or the rest of the input unchanged after an unterminated quote (literal
\* text).
UnterminatedConsumesToEnd ==
    pc = "stripped" =>
        \A i \in 1..Len(code) :
            FirstUnterminatedAt(code, i) =>
                sub_result =
                    RemoveComments(SubSeq(code, 1, i - 1)) \o
                    (IF OpensLiteral(code, i)
                     THEN SubSeq(code, i, Len(code))
                     ELSE Newlines(CountNewlines(SubSeq(code, i, Len(code)))))

\* C4 as amended: an opener whose closing delimiter is missing is no match:
\* its first character is copied as ordinary text and the scan resumes at the
\* next character, so the pass treats the text before and the text after it
\* exactly as it would treat each alone.
UnterminatedIsOrdinaryText ==
    pc = "stripped" =>
        \A i \in 1..Len(code) :
            UnterminatedAt(code, i) =>
                sub_result =
                    RemoveComments(SubSeq(code, 1, i - 1)) \o <<code[i]>> \o
                    RemoveComments(SubSeq(code, i + 1, Len(code)))

\* C4 witness: an unterminated opener followed by a comment that is removed.
UnterminatedWitness ==
    /\ pc = "stripped"
    /\ \E i \in 1..Len(code) :
          /\ UnterminatedAt(code, i)
          /\ \E k \in 1..Len(Tokens(code)) :
                Tokens(code)[k].from > i /\ IsComment(Tokens(code)[k])

(***************************************************************************)
(* Get_CompileSwitchCode.py: source lines.  A line is what line.strip()    *)
(* shows of it: the directive it is and the macro it names.                *)
(***************************************************************************)
Ifdef(nm) == [kind |-> "ifdef", name |-> nm]              \* #ifdef NAME
Ifndef(nm) == [kind |-> "ifndef", name |-> nm]            \* #ifndef NAME
IfDefined(nm) == [kind |-> "if_defined", name |-> nm]     \* #if defined(NAME)
IfNotDefined(nm) == [kind |-> "if_not_defined", name |-> nm]
                                                          \* #if !defined(NAME)
IfOther == [kind |-> "if_other", name |-> ""]             \* #if VALUE > 1
Else == [kind |-> "else", name |-> ""]                    \* #else
ElifDefined(nm) == [kind |-> "elif_defined", name |-> nm] \* #elif defined(NAME)
ElifNotDefined(nm) == [kind |-> "elif_not_defined", name |-> nm]
                                                          \* #elif !defined(NAME)
ElifOther == [kind |-> "elif_other", name |-> ""]         \* #elif VALUE > 1
Endif == [kind |-> "endif", name |-> ""]                  \* #endif
Text(t) == [kind |-> "text", name |-> t]                  \* any other line

IfKinds == {"ifdef", "ifndef", "if_defined", "if_not_defined", "if_other"}
ElifKinds == {"elif_defined", "elif_not_defined", "elif_other"}
DirectiveKinds == IfKinds \cup ElifKinds \cup {"else", "endif"}

(***************************************************************************)
(* Python values of a case dict: an int, a str or a bool, kept apart.      *)
(***************************************************************************)
PyInt(i) == <<"int", i>>
PyStr(t) == <<"str", t>>
PyBool(b) == <<"bool", b>>

\* d[k] = v
DictSet(d, k, v) ==
    [x \in (DOMAIN d) \cup {k} |-> IF x = k THEN v ELSE d[x]]

(***************************************************************************)
(* extract_compile_switches                                                *)
(***************************************************************************)
\* Macro names of the model, in the order sorted() gives strings (upper case
\* before lower case).
SortedNames == <<"A", "B", "case_no">>

\* the kinds of line one of the six switch_patterns finds a name in
SwitchKinds == {"ifdef", "ifndef", "if_defined", "if_not_defined",
                "elif_defined", "elif_not_defined"}

\* '#ifndef' in line or '!defined' in line
SwitchType(l) ==
    IF l.kind \in {"ifndef", "if_not_defined", "elif_not_defined"}
    THEN "ifndef" ELSE "ifdef"

\* the switch_lines entries of lines[k..], line numbers from 1
RECURSIVE SwitchLinesFrom(_, _)
SwitchLinesFrom(ls, k) ==
    IF k > Len(ls) THEN <<>>
    ELSE (IF ls[k].kind \in SwitchKinds
          THEN <<[line_number |-> k, line_content |-> ls[k],
                  switch_name |-> ls[k].name,
                  switch_type |-> SwitchType(ls[k])]>>
          ELSE <<>>) \o SwitchLinesFrom(ls, k + 1)

FoundSwitches(ls) ==
    {ls[k].name : k \in {j \in 1..Len(ls) : ls[j].kind \in SwitchKinds}}

(***************************************************************************)
(* generate_switch_cases                                                   *)
(***************************************************************************)
\* sorted(list(self.switches))
RECURSIVE SortedFrom(_, _)
SortedFrom(S, k) ==
    IF k > Len(SortedNames) THEN <<>>
    ELSE (IF SortedNames[k] \in S THEN <<SortedNames[k]>> ELSE <<>>)
             \o SortedFrom(S, k + 1)

Sorted(S) == SortedFrom(S, 1)

PrefixAll(b, seqs) == [i \in 1..Len(seqs) |-> <<b>> \o seqs[i]]

\* list(product([True, False], repeat=n)): the first position varies slowest
RECURSIVE Product(_)
Product(n) ==
    IF n = 0 THEN << <<>> >>
    ELSE PrefixAll(TRUE, Product(n - 1)) \o PrefixAll(FALSE, Product(n - 1))

\* f"Case_{i:02d}"
CaseName(i) ==
    IF i < 10 THEN <<"Case_", 0, i>> ELSE <<"Case_", i \div 10, i % 10>>

\* for switch, enabled in zip(switches_list, combination):
\*     case_dict[switch] = enabled
RECURSIVE AssignSwitches(_, _, _, _)
AssignSwitches(d, names, combination, k) ==
    IF k > Len(names) THEN d
    ELSE AssignSwitches(DictSet(d, names[k], PyBool(combination[k])),
                        names, combination, k + 1)

CaseDict(i, names, combination) ==
    AssignSwitches([x \in {"case_no", "case_name"} |->
                       IF x = "case_no" THEN PyInt(i) ELSE PyStr(CaseName(i))],
                   names, combination, 1)

\* the dicts the loop of lines 65-74 appends, in order
NewCases(S) ==
    LET names == Sorted(S)
        combinations == Product(Len(names))
    IN  [i \in 1..Len(combinations) |-> CaseDict(i, names, combinations[i])]

(***************************************************************************)
(* Specification of the case enumeration: an analyzer on a file of at most *)
(* MaxFileLines lines; its two methods are called in any order, at most    *)
(* MaxCalls times each.                                                    *)
(***************************************************************************)
FileLineSet ==
    {Ifdef("A"), Ifndef("B"), IfDefined("case_no"), IfNotDefined("A"),
     ElifDefined("B"), ElifNotDefined("case_no"), IfOther, Else, Endif,
     Text("x")}

LinesUpTo(S, n) == UNION {[1..k -> S] : k \in 0..n}

CasesInit ==
    /\ tool = "cases"
    /\ pc = "ready"
    /\ lines \in LinesUpTo(FileLineSet, MaxFileLines)
    /\ switches = {}
    /\ switch_lines = <<>>
    /\ cases = <<>>
    /\ returned = <<>>
    /\ gen_calls = 0
    /\ gen_switches = {}
    /\ ext_calls = 0
    /\ result = <<>>
    /\ StripIdle
    /\ PreIdle
    /\ ExtIdle

extract_compile_switches ==
    /\ tool = "cases"
    /\ ext_calls < MaxCalls
    /\ switches' = switches \cup FoundSwitches(lines)
    /\ switch_lines' = switch_lines \o SwitchLinesFrom(lines, 1)
    /\ ext_calls' = ext_calls + 1
    /\ UNCHANGED <<tool, pc, lines, cases, returned, gen_calls, gen_switches,
                   result>>
    /\ UNCHANGED <<stripVars, preVars, extVars>>

generate_switch_cases ==
    /\ tool = "cases"
    /\ gen_calls < MaxCalls
    /\ IF switches = {}
       THEN /\ returned' = <<>>
            /\ UNCHANGED cases
       ELSE /\ cases' = cases \o NewCases(switches)
            /\ returned' = cases'
    /\ gen_calls' = gen_calls + 1
    /\ gen_switches' = switches
    /\ UNCHANGED <<tool, pc, lines, switches, switch_lines, ext_calls, result>>
    /\ UNCHANGED <<stripVars, preVars, extVars>>

CasesNext == extract_compile_switches \/ generate_switch_cases

CasesSpec == CasesInit /\ [][CasesNext]_vars

(***************************************************************************)
(* Properties of the case enumeration                                      *)
(***************************************************************************)
RECURSIVE Pow2(_)
Pow2(n) == IF n = 0 THEN 1 ELSE 2 * Pow2(n - 1)

\* the assignment a case dict gives to the names of S
Assignment(d, S) == [nm \in S |-> d[nm]]

\* C5: the first call of generate_switch_cases on an analyzer that has
\* discovered N >= 1 names returns exactly 2^N cases, numbered 1..2^N in list
\* order, whose assignments over the N names are booleans and pairwise
\* distinct.
CasesEnumerated ==
    (gen_calls = 1 /\ gen_switches # {}) =>
        /\ Len(returned) = Pow2(Cardinality(gen_switches))
        /\ \A i \in 1..Len(returned) : returned[i]["case_no"] = PyInt(i)
        /\ \A i \in 1..Len(returned) : \A nm \in gen_switches :
               returned[i][nm] \in {PyBool(TRUE), PyBool(FALSE)}
        /\ \A i, j \in 1..Len(returned) :
               i # j => Assignment(returned[i], gen_switches)
                            # Assignment(returned[j], gen_switches)

\* C21: whichever call of generate_switch_cases it is, on an analyzer that
\* has discovered N >= 1 names the list returned is the 2^N cases of those
\* names and no more: nothing of an earlier call is in it.
CasesRecomputedEachCall ==
    (gen_calls >= 1 /\ gen_switches # {}) =>
        /\ Len(returned) = Pow2(Cardinality(gen_switches))
        /\ \A i, j \in 1..Len(returned) :
               i # j => Assignment(returned[i], gen_switches)
                            # Assignment(returned[j], gen_switches)

(***************************************************************************)
(* preprocess_code                                                         *)
(***************************************************************************)
\* truth value of a Python value
Truthy(v) ==
    IF v[1] = "bool" THEN v[2]
    ELSE IF v[1] = "int" THEN v[2] # 0
    ELSE v[2] # <<>>

\* bool(case.get(switch_name, False))
CaseGet(c, nm) == IF nm \in DOMAIN c THEN Truthy(c[nm]) ELSE FALSE

\* skip_depth kept as a flag, not as a count of the inactive frames
SkipAfterPushAsFlag(condition_met, sd) == IF ~ condition_met THEN 1 ELSE sd

\* lines 119-124 and 127-132: skip_depth after a frame is pushed
SkipAfterPush(condition_met, sd) == IF ~ condition_met THEN sd + 1 ELSE sd

\* #else that does not count the frame it turns off
SkipAfterElseUncounted(prev_condition, sd) ==
    IF prev_condition THEN sd ELSE sd - 1

\* lines 137-143: skip_depth after #else turned prev_condition into its negation
SkipAfterElse(prev_condition, sd) ==
    IF prev_condition THEN sd + 1 ELSE sd - 1

\* lines 152-167: the condition #elif gives the top frame
ElifCondition(prev_condition, line, c) ==
    IF prev_condition THEN FALSE
    ELSE IF line.kind = "elif_defined" THEN CaseGet(c, line.name)
    ELSE IF line.kind = "elif_not_defined" THEN ~ CaseGet(c, line.name)
    ELSE FALSE

\* lines 153-172: skip_depth after #elif; whatever the frame's condition was,
\* a false new condition adds one
SkipAfterElif(prev_condition, new_condition, sd) ==
    IF prev_condition THEN sd + 1
    ELSE IF ~ new_condition THEN sd + 1
    ELSE sd - 1

\* lines 179-181: skip_depth after the frame with prev_condition was popped
SkipAfterEndif(prev_condition, sd) ==
    IF ~ prev_condition /\ sd > 0 THEN sd - 1 ELSE sd

Top(st) == st[Len(st)]
Front(st) == SubSeq(st, 1, Len(st) - 1)
SetTop(st, f) == [st EXCEPT ![Len(st)] = f]

(***************************************************************************)
(* The nesting of the input itself, kept beside the function's state to    *)
(* state what the function should make of a line.                          *)
(***************************************************************************)
NoLine == [line |-> [kind |-> "none", name |-> ""], emitted |-> FALSE,
           skip0 |-> TRUE, selected |-> TRUE, active |-> TRUE,
           viaElif |-> FALSE]

\* the truth of the condition that opens a block, under the assignment c
OpeningTruth(line, c) ==
    IF line.kind \in {"ifdef", "if_defined"} THEN CaseGet(c, line.name)
    ELSE IF line.kind \in {"ifndef", "if_not_defined"}
         THEN ~ CaseGet(c, line.name)
    ELSE FALSE

\* the truth of the condition an #elif names, under the assignment c
ElifTruth(line, c) ==
    IF line.kind = "elif_defined" THEN CaseGet(c, line.name)
    ELSE IF line.kind = "elif_not_defined" THEN ~ CaseGet(c, line.name)
    ELSE FALSE

\* a block selects its first body when its condition is true, its #else body
\* otherwise
Selected(b) == IF b.inElse THEN ~ b.first ELSE b.first
AllSelected(o) == \A k \in 1..Len(o) : Selected(o[k])

\* in a chain the current branch is active when its condition is true and no
\* earlier branch of the chain was (field now; field any: some branch so far
\* was true)
AllActive(o) == \A k \in 1..Len(o) : o[k].now

\* an emitted body line belongs to the current branch of every open block
MarkEmitted(o) ==
    [k \in 1..Len(o) |->
        IF o[k].cur THEN o[k]
        ELSE [o[k] EXCEPT !.cur = TRUE, !.bodies = @ + 1]]

OpenAfter(line, emitted) ==
    IF line.kind \in IfKinds
        THEN Append(open, [first |-> OpeningTruth(line, case),
                           inElse |-> FALSE, bodies |-> 0, cur |-> FALSE,
                           any |-> OpeningTruth(line, case),
                           now |-> OpeningTruth(line, case),
                           elif |-> FALSE,
                           sure |-> line.kind # "if_other"])
    ELSE IF line.kind = "text"
        THEN IF emitted THEN MarkEmitted(open) ELSE open
    ELSE IF open = <<>> THEN open
    ELSE IF line.kind = "endif" THEN Front(open)
    ELSE IF line.kind = "else"
        THEN SetTop(open, [Top(open) EXCEPT !.inElse = TRUE, !.cur = FALSE,
                                            !.now = ~ Top(open).any,
                                            !.any = TRUE, !.elif = FALSE])
    ELSE SetTop(open, [Top(open) EXCEPT
                          !.cur = FALSE,
                          !.now = ~ Top(open).any /\ ElifTruth(line, case),
                          !.any = Top(open).any \/ ElifTruth(line, case),
                          !.elif = TRUE,
                          !.sure = Top(open).sure /\ line.kind # "elif_other"])

Misplaced(line) ==
    /\ line.kind \in ElifKinds \cup {"else", "endif"}
    /\ \/ open = <<>>
       \/ line.kind # "endif" /\ Top(open).inElse

\* what taking `line` does to the record of the input
Taken(line, emitted) ==
    /\ scanned' = scanned + 1
    /\ last' = IF line.kind \in DirectiveKinds \ {"if_other"} THEN NoLine
               ELSE [line |-> line, emitted |-> emitted,
                     skip0 |-> skip_depth = 0, selected |-> AllSelected(open),
                     active |-> AllActive(open),
                     viaElif |-> /\ open # <<>>
                                 /\ Top(open).elif /\ Top(open).sure]
    /\ open' = OpenAfter(line, emitted)
    /\ wellformed' = (wellformed /\ ~ Misplaced(line))
    /\ known' = (known /\ line.kind # "if_other")
    /\ saw_elif' = (saw_elif \/ line.kind \in ElifKinds)
    /\ no_directive' = (no_directive /\ line.kind \notin DirectiveKinds)

(***************************************************************************)
(* Specification of preprocess_code: the input is any sequence of at most  *)
(* MaxLines lines of PreLines nested at most MaxDepth deep, taken one line *)
(* per iteration of the loop; the assignment is any dict over PreNames.    *)
(***************************************************************************)
PreNames == {"A", "B"}

PreCases ==
    UNION {[S -> {PyBool(TRUE), PyBool(FALSE)}] : S \in SUBSET PreNames}

PreLines ==
    {Ifdef("A"), IfDefined("B"), Ifndef("B"), IfNotDefined("A"), IfOther,
     Else, ElifDefined("B"), ElifNotDefined("A"), ElifOther, Endif,
     Text("x")}

PreInit ==
    /\ tool = "pre"
    /\ pc = "scan"
    /\ case \in PreCases
    /\ stack = <<>>
    /\ skip_depth = 0
    /\ result = <<>>
    /\ scanned = 0
    /\ open = <<>>
    /\ last = NoLine
    /\ wellformed = TRUE
    /\ known = TRUE
    /\ saw_elif = FALSE
    /\ no_directive = TRUE
    /\ StripIdle
    /\ CasesIdle
    /\ ExtIdle

InLoop == tool = "pre" /\ pc = "scan" /\ scanned < MaxLines

\* lines 119-125: #ifdef NAME, #if defined(NAME)
TakeIfdef(line) ==
    /\ line.kind \in {"ifdef", "if_defined"}
    /\ LET condition_met == CaseGet(case, line.name)
       IN  /\ stack' = Append(stack, <<condition_met, line>>)
           /\ skip_depth' = SkipAfterPush(condition_met, skip_depth)
    /\ Taken(line, FALSE)
    /\ UNCHANGED <<tool, pc, case, result>>
    /\ UNCHANGED <<stripVars, caseVars, extVars>>

ScanIfdef ==
    /\ InLoop /\ Len(open) < MaxDepth
    /\ \E line \in PreLines : TakeIfdef(line)

\* lines 127-133: #ifndef NAME, #if !defined(NAME)
TakeIfndef(line) ==
    /\ line.kind \in {"ifndef", "if_not_defined"}
    /\ LET condition_met == ~ CaseGet(case, line.name)
       IN  /\ stack' = Append(stack, <<condition_met, line>>)
           /\ skip_depth' = SkipAfterPush(condition_met, skip_depth)
    /\ Taken(line, FALSE)
    /\ UNCHANGED <<tool, pc, case, result>>
    /\ UNCHANGED <<stripVars, caseVars, extVars>>

ScanIfndef ==
    /\ InLoop /\ Len(open) < MaxDepth
    /\ \E line \in PreLines : TakeIfndef(line)

\* lines 135-144: #else
TakeElse(line) ==
    /\ line.kind = "else"
    /\ IF stack # <<>>
       THEN LET prev_condition == Top(stack)[1]
                new_condition == ~ prev_condition
            IN  /\ stack' = SetTop(stack, <<new_condition, Top(stack)[2]>>)
                /\ skip_depth' = SkipAfterElse(prev_condition, skip_depth)
       ELSE UNCHANGED <<stack, skip_depth>>
    /\ Taken(line, FALSE)
    /\ UNCHANGED <<tool, pc, case, result>>
    /\ UNCHANGED <<stripVars, caseVars, extVars>>

ScanElse ==
    /\ InLoop
    /\ \E line \in PreLines : TakeElse(line)

\* lines 146-175: #elif
TakeElif(line) ==
    /\ line.kind \in ElifKinds
    /\ IF stack # <<>>
       THEN LET prev_condition == Top(stack)[1]
                new_condition == ElifCondition(prev_condition, line, case)
            IN  /\ skip_depth' = SkipAfterElif(prev_condition, new_condition,
                                               skip_depth)
                /\ stack' = SetTop(stack, <<new_condition, line>>)
       ELSE UNCHANGED <<stack, skip_depth>>
    /\ Taken(line, FALSE)
    /\ UNCHANGED <<tool, pc, case, result>>
    /\ UNCHANGED <<stripVars, caseVars, extVars>>

ScanElif ==
    /\ InLoop
    /\ \E line \in PreLines : TakeElif(line)

\* #endif without the `if stack:` test of line 178: the decrement is made
\* whether or not a frame was popped
TakeEndifWithoutStackTest(line) ==
    /\ line.kind = "endif"
    /\ stack' = IF stack # <<>> THEN Front(stack) ELSE stack
    /\ skip_depth' = IF skip_depth > 0 THEN skip_depth - 1 ELSE skip_depth
    /\ Taken(line, FALSE)
    /\ UNCHANGED <<tool, pc, case, result>>
    /\ UNCHANGED <<stripVars, caseVars, extVars>>

\* lines 177-182: #endif
TakeEndif(line) ==
    /\ line.kind = "endif"
    /\ IF stack # <<>>
       THEN /\ stack' = Front(stack)
            /\ skip_depth' = SkipAfterEndif(Top(stack)[1], skip_depth)
       ELSE UNCHANGED <<stack, skip_depth>>
    /\ Taken(line, FALSE)
    /\ UNCHANGED <<tool, pc, case, result>>
    /\ UNCHANGED <<stripVars, caseVars, extVars>>

ScanEndif ==
    /\ InLoop
    /\ \E line \in PreLines : TakeEndif(line)

\* lines 184-186 with the line put in front of the result
TakeOtherInFront(line) ==
    /\ line.kind \in {"text", "if_other"}
    /\ result' = IF skip_depth = 0 THEN <<line>> \o result ELSE result
    /\ Taken(line, skip_depth = 0)
    /\ UNCHANGED <<tool, pc, case, stack, skip_depth>>
    /\ UNCHANGED <<stripVars, caseVars, extVars>>

\* lines 184-186: a line none of the branches above takes, among them an #if
\* that is not one of the four forms
TakeOther(line) ==
    /\ line.kind \in {"text", "if_other"}
    /\ result' = IF skip_depth = 0 THEN Append(result, line) ELSE result
    /\ Taken(line, skip_depth = 0)
    /\ UNCHANGED <<tool, pc, case, stack, skip_depth>>
    /\ UNCHANGED <<stripVars, caseVars, extVars>>

ScanOther ==
    /\ InLoop
    /\ \E line \in PreLines :
          /\ line.kind = "if_other" => Len(open) < MaxDepth
          /\ TakeOther(line)

\* line 188: the end of code_lines
PreReturn ==
    /\ tool = "pre" /\ pc = "scan"
    /\ pc' = "done"
    /\ UNCHANGED <<tool, result>>
    /\ UNCHANGED <<stripVars, caseVars, preVars, extVars>>

PreNext ==
    \/ ScanIfdef
    \/ ScanIfndef
    \/ ScanElse
    \/ ScanElif
    \/ ScanEndif
    \/ ScanOther
    \/ PreReturn

PreSpec == PreInit /\ [][PreNext]_vars

(***************************************************************************)
(* Properties of preprocess_code                                           *)
(***************************************************************************)
AllFramesTrue == \A k \in 1..Len(stack) : stack[k][1]

\* C6: on an input of properly nested #ifdef / #ifndef / #if defined /
\* #if !defined, #else and #endif only, a non-directive line is emitted
\* exactly when every block enclosing it selects the branch the line is in.
BranchSelection ==
    (last.line.kind = "text" /\ wellformed /\ known /\ ~ saw_elif) =>
        (last.emitted <=> last.selected)

\* C6 witness: with the outer block's branch selected and one of its lines
\* already emitted, a line of an inner block that is not selected is
\* suppressed.
BranchSelectionWitness ==
    /\ wellformed /\ known /\ ~ saw_elif
    /\ last.line.kind = "text" /\ ~ last.emitted
    /\ Len(open) = 2
    /\ Selected(open[1]) /\ open[1].bodies = 1
    /\ ~ Selected(open[2])
    /\ Len(result) = 1

\* C7: while a well-formed input is scanned, skip_depth = 0 exactly when the
\* condition of every frame on the stack is true, so a non-directive line is
\* emitted exactly when every frame's condition is true.
SkipDepthMirrorsStack ==
    wellformed =>
        /\ (skip_depth = 0) <=> AllFramesTrue
        /\ last.line.kind = "text" => (last.emitted <=> AllFramesTrue)

\* C8: when the scan of a well-formed input whose blocks are all closed
\* ends, the frame stack is empty and skip_depth is 0.
TerminalStateClean ==
    (pc = "done" /\ wellformed /\ open = <<>>) =>
        (stack = <<>> /\ skip_depth = 0)

\* C9: in a chain #if / #elif / ... / #else the body lines of at most one
\* branch are emitted.
OneBranchPerChain ==
    (wellformed /\ known) => \A k \in 1..Len(open) : open[k].bodies <= 1

\* C10: no conditional-compilation directive line is in the output, and any
\* other line is in it exactly when skip_depth was 0 as it was scanned.
NoDirectiveEmitted ==
    /\ \A k \in 1..Len(result) : result[k].kind \notin DirectiveKinds
    /\ last.line.kind = "text" => (last.emitted <=> last.skip0)

\* a step of the scan that takes an #else, #elif or #endif line
TakesClosingDirective ==
    /\ tool = "pre" /\ pc = "scan"
    /\ \E line \in PreLines :
          /\ line.kind \in ElifKinds \cup {"else", "endif"}
          /\ Taken(line, FALSE)

\* C11: malformed nesting never aborts the scan: an #else, #elif or #endif
\* scanned while the frame stack is empty changes neither the stack nor
\* skip_depth and emits nothing; the scan can return at every point, frames
\* open or not, and returning hands back exactly the lines emitted so far;
\* the scan is never anywhere but scanning or returned.
MalformedNeverAborts ==
    /\ [](tool = "pre" => /\ pc \in {"scan", "done"}
                          /\ pc = "scan" => ENABLED PreReturn)
    /\ [][(TakesClosingDirective /\ stack = <<>>) =>
              (UNCHANGED <<stack, skip_depth, result>> /\ pc' = "scan")]_vars
    /\ [][(tool = "pre" /\ pc = "scan" /\ pc' = "done") =>
              UNCHANGED <<result, stack, skip_depth>>]_vars

\* C11 witness: a scan of three lines has returned; one was an #else or
\* #endif met before any block was open, one opened a block that is still
\* open, and one was a line that was emitted.
MalformedWitness ==
    /\ pc = "done" /\ ~ wellformed /\ known /\ ~ saw_elif
    /\ scanned = 3 /\ Len(stack) = 1 /\ Len(open) = 1 /\ Len(result) = 1

\* a step of the scan that takes an #elif line while a frame is on the stack
\* and leaves that frame's condition false as it was
ElifKeepsFrameFalse ==
    /\ tool = "pre" /\ pc = "scan" /\ stack # <<>>
    /\ \E line \in PreLines : line.kind \in ElifKinds /\ Taken(line, FALSE)
    /\ ~ Top(stack)[1] /\ ~ Top(stack')[1]

\* C19: in a chain whose enclosing blocks are all active and in which no
\* earlier branch was true, the body of an #elif defined / #elif !defined
\* whose condition is true is emitted, however many false #elif precede it;
\* and an #elif that keeps the frame false leaves skip_depth unchanged.
ElifTrueBranchEmitted ==
    /\ []((wellformed /\ known /\ last.line.kind = "text"
              /\ last.viaElif /\ last.active) => last.emitted)
    /\ [][ElifKeepsFrameFalse => skip_depth' = skip_depth]_vars

\* C20: the frame stack is as deep as the number of blocks opened by an
\* #if-family directive (#ifdef, #ifndef, #if with any expression) and not
\* yet closed, so each #endif pops the frame of its own opening directive.
StackDepthIsNesting == wellformed => Len(stack) = Len(open)

\* the frames on the stack whose condition is false
FalseFrames == {k \in 1..Len(stack) : ~ stack[k][1]}

\* a step that pops a frame whose condition is false
PopsFalseFrame ==
    /\ tool = "pre" /\ stack # <<>>
    /\ stack' = Front(stack)
    /\ ~ Top(stack)[1]

\* C28: in every state of the scan, whatever the input and the assignment,
\* skip_depth is at least 0 and at least the number of frames on the stack
\* whose condition is false; so whenever #endif pops such a frame the test
\* `skip_depth > 0` passes and skip_depth goes down by one.
SkipDepthCoversFalseFrames ==
    /\ [](tool = "pre" =>
            skip_depth >= 0 /\ skip_depth >= Cardinality(FalseFrames))
    /\ [][PopsFalseFrame =>
            skip_depth > 0 /\ skip_depth' = skip_depth - 1]_vars

\* C28 witness: on an input that is not well formed, a frame whose condition
\* is false is on the stack over a frame whose condition is true, and
\* skip_depth is more than the number of false frames.
SkipDepthCoversFalseFramesWitness ==
    /\ tool = "pre" /\ ~ wellformed
    /\ Len(stack) = 2 /\ stack[1][1] /\ ~ stack[2][1]
    /\ skip_depth > Cardinality(FalseFrames)

\* a step of the scan that takes one line
TakesLine == tool = "pre" /\ scanned' = scanned + 1

\* C29: whatever the input and the assignment, the output is made of lines
\* of the input in their order: a step takes one line and either leaves the
\* output as it is or puts that very line, unchanged, at its end, and
\* nothing else changes the output; while no directive line was taken, the
\* output is every line taken so far.
OutputIsSubsequence ==
    /\ [][tool = "pre" =>
            \/ result' = result
            \/ TakesLine /\ result' = Append(result, last'.line)]_vars
    /\ [](tool = "pre" /\ no_directive =>
            /\ Len(result) = scanned
            /\ \A k \in 1..Len(result) : result[k].kind = "text")

\* C29 witness: the scan has returned three lines of five; an #if it does
\* not evaluate was emitted before a text line, a line was suppressed.
OutputIsSubsequenceWitness ==
    /\ tool = "pre" /\ pc = "done" /\ scanned = 5
    /\ Len(result) = 3
    /\ result[1].kind = "if_other" /\ result[2].kind = "text"
    /\ ~ no_directive /\ ~ last.emitted /\ last.line.kind = "text"

(***************************************************************************)
(* Get_Func_Call.py.  The text of the file is a sequence of tokens: an     *)
(* identifier, "(", ")", "{", "}", "blk" (a block comment or a string or   *)
(* char literal), "//" (the start of a line comment) and "sp" (white       *)
(* space).  Two identifier tokens side by side are separated by white      *)
(* space.                                                                  *)
(***************************************************************************)
Idents == {"foo", "bar", "if", "int"}

\* lines 131-135
keywords ==
    {"if", "else", "for", "while", "do", "switch", "case", "default",
     "return", "break", "continue", "goto", "sizeof", "typeof",
     "static_assert", "_Static_assert"}

IsIdent(t) == t \in Idents
IsWhite(t) == t = "sp"

\* index of the first token t of c at or after j, 0 when there is none
RECURSIVE FirstOf(_, _, _)
FirstOf(c, j, t) ==
    IF j > Len(c) THEN 0
    ELSE IF c[j] = t THEN j
    ELSE FirstOf(c, j + 1, t)

\* lines 70-79: a literal or a block comment becomes one blank; with DOTALL
\* the `.` of (//.*) takes newlines too, so a line comment and all the text
\* after it become one blank
remove_comments_and_strings(c) ==
    LET blanked == [k \in 1..Len(c) |-> IF c[k] = "blk" THEN "sp" ELSE c[k]]
        lc == FirstOf(c, 1, "//")
    IN  IF lc = 0 THEN blanked
        ELSE Append(SubSeq(blanked, 1, lc - 1), "sp")

\* \s* from j on: the index of the first token that is not white space
RECURSIVE SkipWhite(_, _)
SkipWhite(c, j) ==
    IF j <= Len(c) /\ IsWhite(c[j]) THEN SkipWhite(c, j + 1) ELSE j

\* ([a-zA-Z_]\w*\s+)*[a-zA-Z_]\w*\s* from j on: the index after the run of
\* identifiers and white space
RECURSIVE RunEnd(_, _)
RunEnd(c, j) ==
    IF j <= Len(c) /\ (IsIdent(c[j]) \/ IsWhite(c[j]))
    THEN RunEnd(c, j + 1) ELSE j

\* group 2 of the pattern: the last identifier before index e
RECURSIVE LastIdentBefore(_, _)
LastIdentBefore(c, e) ==
    IF IsIdent(c[e - 1]) THEN e - 1 ELSE LastIdentBefore(c, e - 1)

NoDef == [name |-> "", brace |-> 0]

\* line 90: the pattern tried at index s; name is group 2 and brace the
\* index of the "{" that ends the match
DefMatchAt(c, s) ==
    IF ~ IsIdent(c[s]) THEN NoDef
    ELSE LET e == RunEnd(c, s)
         IN  IF e > Len(c) \/ c[e] # "(" THEN NoDef
             ELSE LET r == FirstOf(c, e + 1, ")")
                  IN  IF r = 0 THEN NoDef
                      ELSE LET b == SkipWhite(c, r + 1)
                           IN  IF b > Len(c) \/ c[b] # "{" THEN NoDef
                               ELSE [name |-> c[LastIdentBefore(c, e)],
                                     brace |-> b]

\* line 92, re.finditer: the start of the first match at or after p, 0 when
\* there is none
RECURSIVE NextDefMatch(_, _)
NextDefMatch(c, p) ==
    IF p > Len(c) THEN 0
    ELSE IF DefMatchAt(c, p).brace # 0 THEN p
    ELSE NextDefMatch(c, p + 1)

\* lines 99-107: the while loop, from pos with the counter at brace_count;
\* pos ends one past the last token looked at
RECURSIVE MatchBrace(_, _, _)
MatchBrace(c, pos, brace_count) ==
    IF pos <= Len(c) /\ brace_count > 0
    THEN MatchBrace(c, pos + 1,
                    IF c[pos] = "{" THEN brace_count + 1
                    ELSE IF c[pos] = "}" THEN brace_count - 1
                    ELSE brace_count)
    ELSE [pos |-> pos, brace_count |-> brace_count]

\* line 111: function_definitions[func_name] = func_body; a key keeps the
\* place of its first insertion
DictPut(defs, name, body) ==
    IF \E k \in 1..Len(defs) : defs[k][1] = name
    THEN [k \in 1..Len(defs) |->
             IF defs[k][1] = name THEN <<name, body>> ELSE defs[k]]
    ELSE Append(defs, <<name, body>>)

\* lines 92-111: the matches from p on, each with its body when its brace
\* closes
RECURSIVE DefsFrom(_, _, _)
DefsFrom(c, p, defs) ==
    LET s == NextDefMatch(c, p)
    IN  IF s = 0 THEN defs
        ELSE LET m == DefMatchAt(c, s)
                 e == MatchBrace(c, m.brace + 1, 1)
             IN  DefsFrom(c, m.brace + 1,
                          IF e.brace_count = 0
                          THEN DictPut(defs, m.name,
                                       SubSeq(c, m.brace, e.pos - 1))
                          ELSE defs)

extract_function_definitions(c) == DefsFrom(c, 1, <<>>)

\* line 123: an identifier followed by "(", white space allowed between
IsCallSite(body, k) ==
    /\ IsIdent(body[k])
    /\ LET j == SkipWhite(body, k + 1)
       IN  j <= Len(body) /\ body[j] = "("

\* a list that keeps every name added to it
ListAdd(called, x) == Append(called, x)

\* line 138: called_functions.add(func_name), the set kept as the sequence
\* of its members
SetAdd(called, x) ==
    IF \E k \in 1..Len(called) : called[k] = x THEN called
    ELSE Append(called, x)

RECURSIVE CalledFrom(_, _, _)
CalledFrom(body, k, called) ==
    IF k > Len(body) THEN called
    ELSE CalledFrom(body, k + 1,
                    IF IsCallSite(body, k) /\ body[k] \notin keywords
                    THEN SetAdd(called, body[k]) ELSE called)

\* lines 115-140
extract_called_functions(func_body) == CalledFrom(func_body, 1, <<>>)

\* lines 38-42: one row per member of called_functions
RECURSIVE RowsFrom(_, _)
RowsFrom(defs, k) ==
    IF k > Len(defs) THEN <<>>
    ELSE LET called == extract_called_functions(defs[k][2])
         IN  [j \in 1..Len(called) |-> <<defs[k][1], called[j]>>]
                 \o RowsFrom(defs, k + 1)

(***************************************************************************)
(* Specification of extract_function_calls: the file is any text made of   *)
(* at most MaxItems of the pieces of CallItems.                            *)
(***************************************************************************)
Hdr(n) == <<n, "(", ")", "{">>
Call(n) == <<n, "(">>

CallItems ==
    {Hdr("foo"), Hdr("if"), Call("foo"), Call("bar"), Call("if"),
     <<"}">>, <<"int">>, <<"blk">>, <<"//">>}

RECURSIVE Flatten(_)
Flatten(q) == IF q = <<>> THEN <<>> ELSE Head(q) \o Flatten(Tail(q))

ContentsUpTo(n) ==
    {Flatten(q) : q \in UNION {[1..k -> CallItems] : k \in 0..n}}

CallsInit ==
    /\ tool = "calls"
    /\ pc = "read"
    /\ content \in ContentsUpTo(MaxItems)
    /\ function_definitions = <<>>
    /\ function_calls = <<>>
    /\ result = <<>>
    /\ StripIdle
    /\ CasesIdle
    /\ PreIdle
    /\ TablesIdle
    /\ MagicIdle
    /\ StructIdle
    /\ DefineIdle
    /\ ValuesIdle
    /\ LoopIdle

\* lines 29-42
extract_function_calls ==
    /\ tool = "calls" /\ pc = "read"
    /\ LET stripped == remove_comments_and_strings(content)
           defs == extract_function_definitions(stripped)
       IN  /\ content' = stripped
           /\ function_definitions' = defs
           /\ function_calls' = RowsFrom(defs, 1)
    /\ pc' = "written"
    /\ UNCHANGED <<tool, result>>
    /\ UNCHANGED <<stripVars, caseVars, preVars, tableVars, magicVars,
                   structVars, defineVars, valueVars, loopVars>>

CallsNext == extract_function_calls

CallsSpec == CallsInit /\ [][CallsNext]_vars

(***************************************************************************)
(* Properties of extract_function_calls                                    *)
(***************************************************************************)
\* the number of call sites of g in a body
Occurrences(body, g) ==
    Cardinality({k \in 1..Len(body) : body[k] = g /\ IsCallSite(body, k)})

\* the number of rows caller f, callee g
EdgeCount(f, g) ==
    Cardinality({k \in 1..Len(function_calls) : function_calls[k] = <<f, g>>})

Callers == {function_definitions[d][1] : d \in 1..Len(function_definitions)}

\* C12 as claimed: a body with k call sites of a callee that is no keyword
\* gives k edges caller -> callee, none to a keyword; the caller's own name
\* counts as any other callee.
OneEdgePerCallSite ==
    pc = "written" =>
        /\ \A d \in 1..Len(function_definitions) : \A g \in Idents :
              EdgeCount(function_definitions[d][1], g) =
                  IF g \in keywords THEN 0
                  ELSE Occurrences(function_definitions[d][2], g)
        /\ \A k \in 1..Len(function_calls) : function_calls[k][1] \in Callers

\* C12 as amended: a body with one or more call sites of a callee that is no
\* keyword gives exactly one edge caller -> callee, however many the call
\* sites; no call site gives no edge, and a keyword is never a callee; the
\* caller's own name counts as any other callee.
OneEdgePerCallee ==
    pc = "written" =>
        /\ \A d \in 1..Len(function_definitions) : \A g \in Idents :
              EdgeCount(function_definitions[d][1], g) =
                  IF g \notin keywords
                     /\ Occurrences(function_definitions[d][2], g) >= 1
                  THEN 1 ELSE 0
        /\ \A k \in 1..Len(function_calls) : function_calls[k][1] \in Callers

\* C12 witness: the body of foo calls bar at two sites, `if` at one and foo
\* itself; the rows are foo -> bar and foo -> foo, once each.
OneEdgePerCalleeWitness ==
    /\ pc = "written"
    /\ Len(function_definitions) = 1
    /\ function_definitions[1][1] = "foo"
    /\ Occurrences(function_definitions[1][2], "bar") = 2
    /\ Occurrences(function_definitions[1][2], "foo") = 1
    /\ EdgeCount("foo", "bar") = 1
    /\ EdgeCount("foo", "foo") = 1
    /\ Len(function_calls) = 2

\* C30: no row has a control-flow keyword as its caller: a block headed by
\* `if (...) {` inside a function body is not taken for a function
\* definition, so the calls in it are rows of the enclosing function only.
NoKeywordCaller ==
    pc = "written" =>
        /\ \A d \in 1..Len(function_definitions) :
              function_definitions[d][1] \notin keywords
        /\ \A k \in 1..Len(function_calls) :
              function_calls[k][1] \notin keywords

(***************************************************************************)
(* Get_Table.py.  The code is a sequence of lines and a line a sequence    *)
(* of tokens: a word (\w+), one of [ ] = { } ; ( ) , the string literal    *)
(* "{" , a block comment and "//" (the start of a line comment).           *)
(***************************************************************************)
LITERAL == "\"{\""
COMMENT == "/*}*/"
\* the string literal "" , a literal without a brace
EMPTY == "\"\""

Symbols ==
    {"[", "]", "=", "{", "}", ";", "(", ")", ",", LITERAL, EMPTY, COMMENT,
     "//"}

IsWord(t) == t \notin Symbols

\* lines 206-235, one line of the code: a literal stays, a block comment
\* without a newline becomes nothing, a line comment goes up to the end of
\* its line
StripLine(line) ==
    LET lc == FirstOf(line, 1, "//")
        kept == IF lc = 0 THEN line ELSE SubSeq(line, 1, lc - 1)
    IN  SelectSeq(kept, LAMBDA t : t # COMMENT)

remove_c_comments_for_parsing(c) == [k \in 1..Len(c) |-> StripLine(c[k])]

\* the characters { and } a token holds
Opens(t) == IF t \in {"{", LITERAL} THEN 1 ELSE 0
Closes(t) == IF t = "}" THEN 1 ELSE 0

RECURSIVE CountOpens(_)
CountOpens(line) ==
    IF line = <<>> THEN 0 ELSE Opens(Head(line)) + CountOpens(Tail(line))

RECURSIVE CountCloses(_)
CountCloses(line) ==
    IF line = <<>> THEN 0 ELSE Closes(Head(line)) + CountCloses(Tail(line))

\* lines 132, 139: line.count('{') - line.count('}')
BraceDelta(line) == CountOpens(line) - CountCloses(line)

Has(line, t) == \E k \in 1..Len(line) : line[k] = t

\* '{' in line
HasOpenBrace(line) == CountOpens(line) > 0

\* line.strip().endswith(';')
EndsWithSemicolon(line) == line # <<>> /\ line[Len(line)] = ";"

\* the index of the first token of the line that is not a word
RECURSIVE WordsEnd(_, _)
WordsEnd(line, j) ==
    IF j <= Len(line) /\ IsWord(line[j]) THEN WordsEnd(line, j + 1) ELSE j

Qualifiers == {"static", "const", "extern"}

\* line 173: qualifiers, `unsigned` or not, a type word, a name, "["
StartPattern1(line) ==
    LET j == WordsEnd(line, 1)
    IN  /\ j <= Len(line) /\ line[j] = "[" /\ j >= 3
        /\ \A k \in 1..(j - 3) :
              line[k] \in Qualifiers \/ (k = j - 3 /\ line[k] = "unsigned")

\* line 174: qualifiers, `struct`, a tag, a name, "["
StartPattern2(line) ==
    LET j == WordsEnd(line, 1)
    IN  /\ j <= Len(line) /\ line[j] = "[" /\ j >= 4
        /\ line[j - 3] = "struct"
        /\ \A k \in 1..(j - 4) : line[k] \in Qualifiers

\* line 175: qualifiers, a type word, a name, "[" ... "]" "="
StartPattern3(line) ==
    LET j == WordsEnd(line, 1)
    IN  /\ j <= Len(line) /\ line[j] = "[" /\ j >= 3
        /\ \A k \in 1..(j - 3) : line[k] \in Qualifiers
        /\ \E r \in (j + 1)..(Len(line) - 1) :
              line[r] = "]" /\ line[r + 1] = "="

\* lines 181, 199: \w+\s*\([^)]*\)\s* followed by one of `after`
LooksLikeFunction(text, after) ==
    \E k \in 1..Len(text) :
        /\ IsWord(text[k])
        /\ k + 1 <= Len(text) /\ text[k + 1] = "("
        /\ LET r == FirstOf(text, k + 2, ")")
           IN  r # 0 /\ r + 1 <= Len(text) /\ text[r + 1] \in after

\* lines 167-184
is_table_declaration_start(line) ==
    /\ StartPattern1(line) \/ StartPattern2(line) \/ StartPattern3(line)
    /\ ~ LooksLikeFunction(line, {"{", ";"})

\* lines 186-204, on the lines of the declaration
is_valid_table_declaration(table_lines) ==
    LET declaration == Flatten(table_lines)
    IN  /\ declaration # <<>>
        /\ Has(declaration, "[") /\ Has(declaration, "]")
        /\ Has(declaration, "=")
        /\ Has(declaration, "{") \/ Has(declaration, LITERAL)
        /\ ~ LooksLikeFunction(declaration, {"{"})
        /\ declaration[1] # "typedef"

\* lines 136-140: lines are collected while the count is positive
RECURSIVE CollectBraces(_, _, _, _)
CollectBraces(ls, i, brace_count, table_lines) ==
    IF i <= Len(ls) /\ brace_count > 0
    THEN CollectBraces(ls, i + 1, brace_count + BraceDelta(ls[i]),
                       Append(table_lines, ls[i]))
    ELSE [i |-> i, brace_count |-> brace_count, table_lines |-> table_lines]

\* lines 146-152: lines are collected up to one that ends with ";"
RECURSIVE CollectToSemicolon(_, _, _)
CollectToSemicolon(ls, i, table_lines) ==
    IF i > Len(ls) THEN [i |-> i, table_lines |-> table_lines]
    ELSE IF EndsWithSemicolon(ls[i])
         THEN [i |-> i + 1, table_lines |-> Append(table_lines, ls[i])]
         ELSE CollectToSemicolon(ls, i + 1, Append(table_lines, ls[i]))

\* lines 131-157: the declaration that starts on line i with a "{"
Collected(ls, i) ==
    LET c == CollectBraces(ls, i + 1, BraceDelta(ls[i]), <<ls[i]>>)
    IN  IF /\ c.i <= Len(ls) /\ c.brace_count = 0
           /\ ~ EndsWithSemicolon(c.table_lines[Len(c.table_lines)])
        THEN CollectToSemicolon(ls, c.i, c.table_lines)
        ELSE [i |-> c.i, table_lines |-> c.table_lines]

\* a table is kept with the index of its first line (table_start)
Table(i, table_lines) == [table_start |-> i, table_lines |-> table_lines]

\* lines 121-163: the while loop from line i on; line 163 adds 1 to i after
\* every branch, the one that has moved i past the declaration included
RECURSIVE FindFrom(_, _, _)
FindFrom(ls, i, tbls) ==
    IF i > Len(ls) THEN tbls
    ELSE IF ~ is_table_declaration_start(ls[i])
         THEN FindFrom(ls, i + 1, tbls)
    ELSE IF HasOpenBrace(ls[i])
         THEN LET c == Collected(ls, i)
              IN  FindFrom(ls, c.i + 1,
                           IF is_valid_table_declaration(c.table_lines)
                           THEN Append(tbls, Table(i, c.table_lines))
                           ELSE tbls)
    ELSE FindFrom(ls, i + 1,
                  IF Has(ls[i], ";") /\ is_valid_table_declaration(<<ls[i]>>)
                  THEN Append(tbls, Table(i, <<ls[i]>>))
                  ELSE tbls)

find_table_declarations(ls) == FindFrom(ls, 1, <<>>)

(***************************************************************************)
(* Specification of extract_tables: the code is any sequence of at most    *)
(* MaxTableLines lines of TableLineSet.                                    *)
(***************************************************************************)
TableLineSet ==
    {<<"int", "a", "[", "]", "=", "{", "1", "}", ";">>,
     <<"static", "int", "b", "[", "]", "=", "{">>,
     <<"1", ",", COMMENT>>,
     <<"}", ";">>,
     <<"}">>,
     <<";">>,
     <<"int", "f", "(", "int", "a", "[", "]", ")", ";">>,
     <<"typedef", "int", "a", "[", "]", "=", "{", "1", "}", ";">>,
     <<"int", "c", "[", "]", "=", LITERAL, ";">>,
     <<LITERAL, "}", ";">>}

TablesInit ==
    /\ tool = "tables"
    /\ pc = "read"
    /\ table_code \in UNION {[1..k -> TableLineSet] : k \in 0..MaxTableLines}
    /\ tables = <<>>
    /\ result = <<>>
    /\ StripIdle
    /\ CasesIdle
    /\ PreIdle
    /\ CallsIdle
    /\ MagicIdle
    /\ StructIdle
    /\ DefineIdle
    /\ ValuesIdle
    /\ LoopIdle

\* lines 78-111
extract_tables ==
    /\ tool = "tables" /\ pc = "read"
    /\ LET code_without_comments == remove_c_comments_for_parsing(table_code)
       IN  /\ table_code' = code_without_comments
           /\ tables' = find_table_declarations(code_without_comments)
    /\ pc' = "extracted"
    /\ UNCHANGED <<tool, result>>
    /\ UNCHANGED <<stripVars, caseVars, preVars, callVars, magicVars,
                   structVars, defineVars, valueVars, loopVars>>

TablesNext == extract_tables

TablesSpec == TablesInit /\ [][TablesNext]_vars

\* the two extractors that bound a block by counting braces
BraceSpec ==
    (CallsInit \/ TablesInit) /\ [][CallsNext \/ TablesNext]_vars

(***************************************************************************)
(* Properties of the brace counting and of extract_tables                  *)
(***************************************************************************)
\* the count of { less } over the first k tokens of a body
RECURSIVE DepthAfter(_, _)
DepthAfter(body, k) ==
    IF k = 0 THEN 0
    ELSE DepthAfter(body, k - 1)
            + (IF body[k] = "{" THEN 1 ELSE IF body[k] = "}" THEN -1 ELSE 0)

\* the count of { less } over the first k lines of a table
RECURSIVE LineDepthAfter(_, _)
LineDepthAfter(table_lines, k) ==
    IF k = 0 THEN 0
    ELSE LineDepthAfter(table_lines, k - 1) + BraceDelta(table_lines[k])

\* C13: the brace count starts at 1 at the opening "{" and the block ends
\* at the "}" where it first reaches 0; a block whose count has not come
\* back to 0 at the end of the input gives no record, neither a function
\* body nor a table declaration.
UnclosedGivesNoRecord ==
    /\ (tool = "calls" /\ pc = "written") =>
          \A d \in 1..Len(function_definitions) :
             LET body == function_definitions[d][2]
             IN  /\ body[1] = "{" /\ DepthAfter(body, 1) = 1
                 /\ DepthAfter(body, Len(body)) = 0
                 /\ \A k \in 1..(Len(body) - 1) : DepthAfter(body, k) > 0
    /\ (tool = "tables" /\ pc = "extracted") =>
          \A t \in 1..Len(tables) :
             HasOpenBrace(tables[t].table_lines[1]) =>
                \E k \in 1..Len(tables[t].table_lines) :
                   LineDepthAfter(tables[t].table_lines, k) <= 0

\* a line that starts an initialised array declaration of the recognised
\* shape
StartsInitialisedArray(line) ==
    /\ is_table_declaration_start(line)
    /\ Has(line, "=")
    /\ Has(line, "{") \/ Has(line, LITERAL)

\* line i lies inside a captured table, after its first line
InsideTable(i) ==
    \E t \in 1..Len(tables) :
        /\ tables[t].table_start < i
        /\ i < tables[t].table_start + Len(tables[t].table_lines)

\* C14: every line that starts an initialised array declaration and is not
\* inside another captured table gives exactly one table, whatever line
\* precedes it; the tables are in file order; a function declaration or a
\* typedef line starts none.
EveryStartYieldsTable ==
    (tool = "tables" /\ pc = "extracted") =>
        /\ \A i \in 1..Len(table_code) :
              (StartsInitialisedArray(table_code[i]) /\ ~ InsideTable(i)) =>
                 Cardinality({t \in 1..Len(tables) :
                                 tables[t].table_start = i}) = 1
        /\ \A t \in 1..(Len(tables) - 1) :
              tables[t].table_start < tables[t + 1].table_start
        /\ \A t \in 1..Len(tables) :
              LET first == tables[t].table_lines[1]
              IN  /\ ~ LooksLikeFunction(first, {"{", ";"})
                  /\ first[1] # "typedef"

\* the code with the braces taken out of its literals
WithoutLiteralBraces(ls) ==
    [k \in 1..Len(ls) |->
        [j \in 1..Len(ls[k]) |->
            IF ls[k][j] = LITERAL THEN EMPTY ELSE ls[k][j]]]

\* C22: braces inside a literal do not change the brace depth: a captured
\* table that opens with a real "{" has the same last line as the table
\* captured from the same first line once the braces are taken out of the
\* literals.
LiteralBracesNotCounted ==
    (tool = "tables" /\ pc = "extracted") =>
        \A t \in 1..Len(tables) :
           LET start == tables[t].table_start
               plain == WithoutLiteralBraces(table_code)
               found == FindFrom(plain, start, <<>>)
           IN  Has(tables[t].table_lines[1], "{") =>
                  /\ found # <<>>
                  /\ found[1].table_start = start
                  /\ Len(found[1].table_lines) = Len(tables[t].table_lines)

(***************************************************************************)
(* Get_Magic_Number.py.  A line is a sequence of one-character strings     *)
(* that ends with its newline, the last line of the file perhaps without.  *)
(***************************************************************************)
Digit == {"0", "1", "2", "3", "4", "5", "6", "7", "8", "9"}
OctDigit == {"0", "1", "2", "3", "4", "5", "6", "7"}
BinDigit == {"0", "1"}
NonZeroDigit == Digit \ {"0"}
HexDigit == Digit \cup {"a", "b", "c", "d", "e", "f",
                        "A", "B", "C", "D", "E", "F"}
Alpha ==
    {"a", "b", "c", "d", "e", "f", "g", "h", "i", "j", "k", "l", "m", "n",
     "o", "p", "q", "r", "s", "t", "u", "v", "w", "x", "y", "z",
     "A", "B", "C", "D", "E", "F", "G", "H", "I", "J", "K", "L", "M", "N",
     "O", "P", "Q", "R", "S", "T", "U", "V", "W", "X", "Y", "Z"}
\* str.isalnum()
AlNum == Digit \cup Alpha
\* \w
WordChar == AlNum \cup {"_"}
IntSuffix == {"u", "U", "l", "L"}
FloatSuffix == {"f", "F", "l", "L"}

\* the index after the longest run of characters of class cl from j on
RECURSIVE RunOf(_, _, _)
RunOf(s, j, cl) ==
    IF j <= Len(s) /\ s[j] \in cl THEN RunOf(s, j + 1, cl) ELSE j

\* one optional character of class cl at j: the index after it
Opt(s, j, cl) == IF j <= Len(s) /\ s[j] \in cl THEN j + 1 ELSE j

Is(s, j, cl) == j <= Len(s) /\ s[j] \in cl

\* \b between s[p - 1] and s[p]
Boundary(s, p) ==
    (p - 1 >= 1 /\ s[p - 1] \in WordChar) # (p <= Len(s) /\ s[p] \in WordChar)

\* a pattern that has matched up to index e - 1 and ends with \b: the index
\* of the last character of the match, 0 when \b fails
EndAt(s, e) == IF Boundary(s, e) THEN e - 1 ELSE 0

\* line 38: \b0[xX][0-9a-fA-F]+[uUlL]*\b
HexAt(s, i) ==
    IF /\ Boundary(s, i) /\ s[i] = "0" /\ Is(s, i + 1, {"x", "X"})
       /\ Is(s, i + 2, HexDigit)
    THEN EndAt(s, RunOf(s, RunOf(s, i + 2, HexDigit), IntSuffix))
    ELSE 0

\* line 40: \b0[bB][01]+[uUlL]*\b
BinAt(s, i) ==
    IF /\ Boundary(s, i) /\ s[i] = "0" /\ Is(s, i + 1, {"b", "B"})
       /\ Is(s, i + 2, BinDigit)
    THEN EndAt(s, RunOf(s, RunOf(s, i + 2, BinDigit), IntSuffix))
    ELSE 0

\* line 42: \b0[0-7]+[uUlL]*\b
OctAt(s, i) ==
    IF Boundary(s, i) /\ s[i] = "0" /\ Is(s, i + 1, OctDigit)
    THEN EndAt(s, RunOf(s, RunOf(s, i + 1, OctDigit), IntSuffix))
    ELSE 0

\* [eE][+-]?\d+[fFlL]?\b from j on
ExponentAt(s, j) ==
    IF Is(s, j, {"e", "E"}) /\ Is(s, Opt(s, j + 1, {"+", "-"}), Digit)
    THEN EndAt(s, Opt(s, RunOf(s, Opt(s, j + 1, {"+", "-"}), Digit),
                      FloatSuffix))
    ELSE 0

\* line 44: \b\d+\.?\d*[eE][+-]?\d+[fFlL]?\b
FloatExpAt(s, i) ==
    IF Boundary(s, i) /\ s[i] \in Digit
    THEN ExponentAt(s, RunOf(s, Opt(s, RunOf(s, i, Digit), {"."}), Digit))
    ELSE 0

\* line 45: \b\.\d+[eE][+-]?\d+[fFlL]?\b
DotExpAt(s, i) ==
    IF Boundary(s, i) /\ s[i] = "." /\ Is(s, i + 1, Digit)
    THEN ExponentAt(s, RunOf(s, i + 1, Digit))
    ELSE 0

\* line 47: \b\d+\.\d+[fFlL]?\b
FloatAt(s, i) ==
    LET d == RunOf(s, i, Digit)
    IN  IF /\ Boundary(s, i) /\ s[i] \in Digit
           /\ Is(s, d, {"."}) /\ Is(s, d + 1, Digit)
        THEN EndAt(s, Opt(s, RunOf(s, d + 1, Digit), FloatSuffix))
        ELSE 0

\* line 48: \b\d+\.[fFlL]?\b ; when \b fails after the suffix the match is
\* tried again without it
TrailingDotAt(s, i) ==
    LET d == RunOf(s, i, Digit)
    IN  IF Boundary(s, i) /\ s[i] \in Digit /\ Is(s, d, {"."})
        THEN IF Is(s, d + 1, FloatSuffix) /\ Boundary(s, d + 2)
             THEN d + 1
             ELSE EndAt(s, d + 1)
        ELSE 0

\* line 49: \b\.\d+[fFlL]?\b
LeadingDotAt(s, i) ==
    IF Boundary(s, i) /\ s[i] = "." /\ Is(s, i + 1, Digit)
    THEN EndAt(s, Opt(s, RunOf(s, i + 1, Digit), FloatSuffix))
    ELSE 0

\* line 51: \b[1-9]\d*[uUlL]*\b
DecimalAt(s, i) ==
    IF Boundary(s, i) /\ s[i] \in NonZeroDigit
    THEN EndAt(s, RunOf(s, RunOf(s, i + 1, Digit), IntSuffix))
    ELSE 0

\* line 53: \b0[uUlL]*\b
ZeroAt(s, i) ==
    IF Boundary(s, i) /\ s[i] = "0"
    THEN EndAt(s, RunOf(s, i + 1, IntSuffix))
    ELSE 0

\* lines 36-54: number_patterns[p] tried at index i
PatternAt(p, s, i) ==
    CASE p = 1 -> HexAt(s, i)
      [] p = 2 -> BinAt(s, i)
      [] p = 3 -> OctAt(s, i)
      [] p = 4 -> FloatExpAt(s, i)
      [] p = 5 -> DotExpAt(s, i)
      [] p = 6 -> FloatAt(s, i)
      [] p = 7 -> TrailingDotAt(s, i)
      [] p = 8 -> LeadingDotAt(s, i)
      [] p = 9 -> DecimalAt(s, i)
      [] OTHER -> ZeroAt(s, i)

NumPatterns == 10

\* lines 57-63: comment_string_pattern tried at index i; the alternatives
\* are those of remove_c_comments
CommentStringAt(s, i) == MatchAt(s, i)

\* lines 67-70 with each match taken out, no blank put in its place
RECURSIVE CleanFromCutOut(_, _)
CleanFromCutOut(s, i) ==
    IF i > Len(s) THEN <<>>
    ELSE LET m == CommentStringAt(s, i)
         IN  IF m.kind = "none" THEN <<s[i]>> \o CleanFromCutOut(s, i + 1)
             ELSE CleanFromCutOut(s, m.last + 1)

\* lines 67-70: each match is replaced by as many blanks
RECURSIVE CleanFrom(_, _)
CleanFrom(s, i) ==
    IF i > Len(s) THEN <<>>
    ELSE LET m == CommentStringAt(s, i)
         IN  IF m.kind = "none" THEN <<s[i]>> \o CleanFrom(s, i + 1)
             ELSE [k \in 1..(m.last - i + 1) |-> SPACE]
                     \o CleanFrom(s, m.last + 1)

clean_line(line) == CleanFrom(line, 1)

\* lines 83-88: the match is dropped when the character before it or after
\* it is alphanumeric or "_"
Kept(s, from, to) ==
    /\ ~ (from > 1 /\ s[from - 1] \in WordChar)
    /\ ~ (to < Len(s) /\ s[to + 1] \in WordChar)

\* lines 74-95: re.finditer of pattern p over the clean line from i on
RECURSIVE FoundFrom(_, _, _, _)
FoundFrom(p, s, i, line_num) ==
    IF i > Len(s) THEN <<>>
    ELSE LET e == PatternAt(p, s, i)
         IN  IF e = 0 THEN FoundFrom(p, s, i + 1, line_num)
             ELSE (IF Kept(s, i, e)
                   THEN <<[line |-> line_num, column |-> i,
                           number |-> SubSeq(s, i, e)]>>
                   ELSE <<>>) \o FoundFrom(p, s, e + 1, line_num)

\* lines 73-95: the patterns in the order of the list
RECURSIVE FoundInLine(_, _, _)
FoundInLine(s, p, line_num) ==
    IF p > NumPatterns THEN <<>>
    ELSE FoundFrom(p, s, 1, line_num) \o FoundInLine(s, p + 1, line_num)

\* lines 65-95
RECURSIVE FoundInLines(_, _)
FoundInLines(ls, line_num) ==
    IF line_num > Len(ls) THEN <<>>
    ELSE FoundInLine(clean_line(ls[line_num]), 1, line_num)
            \o FoundInLines(ls, line_num + 1)

\* file.readlines(): the text cut after each newline
RECURSIVE ReadLines(_, _)
ReadLines(text, cur) ==
    IF text = <<>> THEN (IF cur = <<>> THEN <<>> ELSE <<cur>>)
    ELSE IF Head(text) = NEWLINE
         THEN <<Append(cur, NEWLINE)>> \o ReadLines(Tail(text), <<>>)
    ELSE ReadLines(Tail(text), Append(cur, Head(text)))

(***************************************************************************)
(* Specification of extract_magic_numbers: the file is any text made of    *)
(* at most MaxPieces of the pieces of MagicPieces.                         *)
(***************************************************************************)
MagicPieces ==
    {<<"1">>, <<"0">>, <<".">>, <<"x">>, <<"e">>, <<SLASH, STAR>>,
     <<STAR, SLASH>>, <<SLASH, SLASH>>, <<DQUOTE>>, <<NEWLINE>>}

MagicTexts ==
    {Flatten(q) : q \in UNION {[1..k -> MagicPieces] : k \in 0..MaxPieces}}

MagicInit ==
    /\ tool = "magic"
    /\ pc = "open"
    /\ magic_text \in MagicTexts
    /\ magic_lines = <<>>
    /\ magic_numbers = <<>>
    /\ result = <<>>
    /\ StripIdle
    /\ CasesIdle
    /\ PreIdle
    /\ CallsIdle
    /\ TablesIdle
    /\ StructIdle
    /\ DefineIdle
    /\ ValuesIdle
    /\ LoopIdle

\* lines 17-97
extract_magic_numbers ==
    /\ tool = "magic" /\ pc = "open"
    /\ magic_lines' = ReadLines(magic_text, <<>>)
    /\ magic_numbers' = FoundInLines(ReadLines(magic_text, <<>>), 1)
    /\ pc' = "returned"
    /\ UNCHANGED <<tool, result, magic_text>>
    /\ UNCHANGED <<stripVars, caseVars, preVars, callVars, tableVars,
                   structVars, defineVars, valueVars, loopVars>>

MagicNext == extract_magic_numbers

MagicSpec == MagicInit /\ [][MagicNext]_vars

(***************************************************************************)
(* Properties of extract_magic_numbers                                     *)
(***************************************************************************)
LastColumn(r) == r.column + Len(r.number) - 1

\* C15: a numeric literal gives one occurrence and no occurrence covers
\* part of a longer literal: no two occurrences of a line overlap.
NoOverlappingOccurrences ==
    (tool = "magic" /\ pc = "returned") =>
        \A j, k \in 1..Len(magic_numbers) :
            (j # k /\ magic_numbers[j].line = magic_numbers[k].line) =>
                \/ LastColumn(magic_numbers[j]) < magic_numbers[k].column
                \/ LastColumn(magic_numbers[k]) < magic_numbers[j].column

\* the offset in the file of column 1 of line n
RECURSIVE LineOffset(_, _)
LineOffset(ls, n) ==
    IF n = 1 THEN 0 ELSE LineOffset(ls, n - 1) + Len(ls[n - 1])

\* the comments of the whole file, and its string and char literals that
\* lie within one line
Masked(text) ==
    {t \in {Tokens(text)[k] : k \in 1..Len(Tokens(text))} :
        \/ t.kind \in {"line", "block"}
        \/ /\ t.kind \in {"string", "char"}
           /\ \A j \in t.from..t.to : text[j] # NEWLINE}

\* C16: no occurrence is reported for digits inside a string literal, a
\* char literal, a line comment or a block comment, a block comment that
\* spans several lines included.
NoOccurrenceInCommentOrLiteral ==
    (tool = "magic" /\ pc = "returned") =>
        \A k \in 1..Len(magic_numbers) :
            LET r == magic_numbers[k]
                off == LineOffset(magic_lines, r.line)
            IN  \A t \in Masked(magic_text) :
                    \/ off + LastColumn(r) < t.from
                    \/ t.to < off + r.column

\* the index in the text of the first character of its n-th line, 0 when
\* the text has fewer lines
RECURSIVE LineStart(_, _)
LineStart(text, n) ==
    IF n = 1 THEN (IF text = <<>> THEN 0 ELSE 1)
    ELSE LET p == LineStart(text, n - 1)
             nl == IF p = 0 THEN 0 ELSE FirstOf(text, p, NEWLINE)
         IN  IF nl = 0 \/ nl = Len(text) THEN 0 ELSE nl + 1

\* C26: the line of an occurrence is the 1-based number of a line of the
\* file, its column is 1-based, and the text of the file as it was read,
\* from that column of that line on, is the literal of the occurrence, all
\* of it within the line.
OccurrenceIsWhereItSays ==
    (tool = "magic" /\ pc = "returned") =>
        \A k \in 1..Len(magic_numbers) :
            LET r == magic_numbers[k]
                start == IF r.line >= 1 THEN LineStart(magic_text, r.line)
                         ELSE 0
                from == start + r.column - 1
                to == from + Len(r.number) - 1
            IN  /\ r.line >= 1 /\ r.column >= 1 /\ start # 0
                /\ r.number # <<>>
                /\ to <= Len(magic_text)
                /\ SubSeq(magic_text, from, to) = r.number
                /\ \A j \in start..to : magic_text[j] # NEWLINE

\* an occurrence on the second line of the file, after a literal on that
\* line
OccurrenceIsWhereItSaysWitness ==
    /\ tool = "magic" /\ pc = "returned"
    /\ \E k \in 1..Len(magic_numbers) :
          /\ magic_numbers[k].line = 2
          /\ magic_numbers[k].column >= 3
          /\ magic_lines[2][1] = DQUOTE

(***************************************************************************)
(* Get_Struct.py.  The text is a sequence of tokens: a word (\w+), a       *)
(* blank (a run of white space), the characters { } [ ] * : ; , and the    *)
(* two ends of a block comment.                                            *)
(***************************************************************************)
StructSymbols == {SPACE, "*", "[", "]", ":", ";", ",", "{", "}", "/*", "*/"}
IsStructWord(t) == t \notin StructSymbols
\* \d+
IsNumber(t) == t \in {"3", "32"}

At(c, j, t) == j >= 1 /\ j <= Len(c) /\ c[j] = t
WordAt(c, j) == j >= 1 /\ j <= Len(c) /\ IsStructWord(c[j])

\* \s* from j on
RECURSIVE SkipSpaces(_, _)
SkipSpaces(c, j) == IF At(c, j, SPACE) THEN SkipSpaces(c, j + 1) ELSE j

NoStruct == [last |-> 0, struct_name |-> "", tag_name |-> "", body |-> <<>>]

\* line 16, .*?\}\s*(?P<typedef_name>\w+)\s*; : the first "}" at or after r
\* that an alias and ";" follow, 0 when there is none
RECURSIVE AliasCloser(_, _)
AliasCloser(c, r) ==
    IF r > Len(c) THEN 0
    ELSE IF /\ c[r] = "}"
            /\ WordAt(c, SkipSpaces(c, r + 1))
            /\ At(c, SkipSpaces(c, SkipSpaces(c, r + 1) + 1), ";")
         THEN r
    ELSE AliasCloser(c, r + 1)

\* line 17, .*?\}\s*; : the first "}" at or after r that ";" follows
RECURSIVE PlainCloser(_, _)
PlainCloser(c, r) ==
    IF r > Len(c) THEN 0
    ELSE IF c[r] = "}" /\ At(c, SkipSpaces(c, r + 1), ";") THEN r
    ELSE PlainCloser(c, r + 1)

\* line 16: typedef\s+struct\s*(\w+)?\s*\{ body \}\s*(\w+)\s*; tried at i
TypedefStructAt(c, i) ==
    LET j == SkipSpaces(c, i + 1)
        k == SkipSpaces(c, j + 1)
        tagged == WordAt(c, k)
        b == IF tagged THEN SkipSpaces(c, k + 1) ELSE k
        r == AliasCloser(c, b + 1)
        a == SkipSpaces(c, r + 1)
    IN  IF /\ c[i] = "typedef" /\ j > i + 1 /\ At(c, j, "struct")
           /\ At(c, b, "{") /\ r # 0
        THEN [last |-> SkipSpaces(c, a + 1), struct_name |-> c[a],
              tag_name |-> IF tagged THEN c[k] ELSE "",
              body |-> SubSeq(c, b + 1, r - 1)]
        ELSE NoStruct

\* line 17: struct\s+(\w+)\s*\{ body \}\s*; tried at i
PlainStructAt(c, i) ==
    LET j == SkipSpaces(c, i + 1)
        b == SkipSpaces(c, j + 1)
        r == PlainCloser(c, b + 1)
    IN  IF /\ c[i] = "struct" /\ j > i + 1 /\ WordAt(c, j)
           /\ At(c, b, "{") /\ r # 0
        THEN [last |-> SkipSpaces(c, r + 1), struct_name |-> c[j],
              tag_name |-> c[j], body |-> SubSeq(c, b + 1, r - 1)]
        ELSE NoStruct

\* lines 15-19: struct_pattern tried at i
StructAt(c, i) ==
    IF TypedefStructAt(c, i).last # 0 THEN TypedefStructAt(c, i)
    ELSE PlainStructAt(c, i)

\* line 50: re.sub(r'\s+', ' ', struct_body.strip())
RECURSIVE Collapse(_)
Collapse(b) ==
    IF b = <<>> THEN <<>>
    ELSE IF Head(b) = SPACE /\ (Len(b) = 1 \/ b[2] = SPACE)
         THEN Collapse(Tail(b))
    ELSE <<Head(b)>> \o Collapse(Tail(b))

NormalizeBody(b) ==
    LET n == Collapse(b)
    IN  IF n # <<>> /\ Head(n) = SPACE THEN Tail(n) ELSE n

\* the optional words of line 23 in their order
Rank(w) ==
    CASE w = "const" -> 1
      [] w \in {"unsigned", "signed"} -> 2
      [] w = "struct" -> 3
      [] w = "enum" -> 4
      [] OTHER -> 0

\* the words at i, i + 2 .. t - 2, each followed by one blank, are optional
\* words of the type in their order, and the word at t is the \w+ of it
TypeWords(b, i, t) ==
    /\ t >= i /\ (t - i) % 2 = 0 /\ WordAt(b, t)
    /\ \A j \in i..(t - 1) :
          IF (j - i) % 2 = 0
          THEN /\ Rank(b[j]) > 0
               /\ j + 2 < t => Rank(b[j]) < Rank(b[j + 2])
          ELSE b[j] = SPACE

\* (?:\s*\*)* from j on
RECURSIVE StarsEnd(_, _)
StarsEnd(b, j) ==
    IF At(b, j, "*") THEN StarsEnd(b, j + 1)
    ELSE IF At(b, j, SPACE) /\ At(b, j + 1, "*") THEN StarsEnd(b, j + 2)
    ELSE j

NoMember == [last |-> 0, type |-> <<>>, name |-> ""]

\* lines 23-24 with the type word at t: the stars, \s+, the name, the array
\* size, the bit-field and ";"
MemberWith(b, i, t) ==
    LET e == StarsEnd(b, t + 1)
        n == e + 1
        close == IF At(b, n + 1, "[") THEN FirstOf(b, n + 2, "]") ELSE 0
        array_size == IF close # 0 THEN SubSeq(b, n + 2, close - 1) ELSE <<>>
        x == SkipSpaces(b, IF close # 0 THEN close + 1 ELSE n + 1)
        w == SkipSpaces(b, x + 1)
        fielded == At(b, x, ":") /\ w <= Len(b) /\ IsNumber(b[w])
        semi == IF fielded THEN SkipSpaces(b, w + 1) ELSE x
    IN  IF At(b, e, SPACE) /\ WordAt(b, n) /\ At(b, semi, ";")
        THEN [last |-> semi,
              type |-> SubSeq(b, i, e - 1)
                        \o (IF array_size # <<>>
                            THEN <<"[">> \o array_size \o <<"]">> ELSE <<>>)
                        \o (IF fielded THEN <<SPACE, ":", SPACE, b[w]>>
                            ELSE <<>>),
              name |-> b[n]]
        ELSE NoMember

\* lines 22-25: member_pattern tried at i
MemberAt(b, i) ==
    LET ts == {t \in i..Len(b) :
                  TypeWords(b, i, t) /\ MemberWith(b, i, t).last # 0}
    IN  IF ts = {} THEN NoMember ELSE MemberWith(b, i, CHOOSE t \in ts : TRUE)

\* lines 53-70: finditer over the normalised body
RECURSIVE MembersFrom(_, _)
MembersFrom(b, i) ==
    IF i > Len(b) THEN <<>>
    ELSE LET m == MemberAt(b, i)
         IN  IF m.last = 0 THEN MembersFrom(b, i + 1)
             ELSE <<[type |-> m.type, name |-> m.name]>>
                     \o MembersFrom(b, m.last + 1)

\* lines 45-72
extract_struct_members(struct_body) ==
    MembersFrom(NormalizeBody(struct_body), 1)

\* lines 89-112: finditer over the content
RECURSIVE StructsFrom(_, _)
StructsFrom(c, i) ==
    IF i > Len(c) THEN <<>>
    ELSE LET m == StructAt(c, i)
         IN  IF m.last = 0 THEN StructsFrom(c, i + 1)
             ELSE <<[struct_name |-> m.struct_name, tag_name |-> m.tag_name,
                     members |-> extract_struct_members(m.body)]>>
                     \o StructsFrom(c, m.last + 1)

(***************************************************************************)
(* Specification of extract_structs_from_file: the file is any text made   *)
(* of at most MaxStructPieces of the pieces of StructPieces.               *)
(***************************************************************************)
TypedefOpen == <<"typedef", SPACE, "struct", SPACE, "{", SPACE>>
StructOpen == <<"struct", SPACE, "P", SPACE, "{", SPACE>>
AliasClose == <<"}", SPACE, "Sample", ";", SPACE>>
PlainClose == <<"}", ";", SPACE>>
PlainMember == <<"int", SPACE, "id", ";", SPACE>>
ArrayMember == <<"char", SPACE, "name", "[", "32", "]", ";", SPACE>>
PointerMember == <<"char", SPACE, "*", "p", ";", SPACE>>
BitMember ==
    <<"unsigned", SPACE, "int", SPACE, "f", SPACE, ":", SPACE, "3", ";",
      SPACE>>

\* /* int old; */
CommentedMember == <<"/*", SPACE, "int", SPACE, "old", ";", SPACE, "*/", SPACE>>
\* /* struct Q { */
CommentedOpen == <<"/*", SPACE, "struct", SPACE, "Q", SPACE, "{", SPACE, "*/">>

MemberPieces == {PlainMember, ArrayMember, PointerMember, BitMember}

StructPieces ==
    {TypedefOpen, StructOpen, AliasClose, PlainClose, CommentedMember,
     CommentedOpen}
        \cup MemberPieces

StructInit ==
    /\ tool = "struct"
    /\ pc = "read"
    /\ struct_source \in
          UNION {[1..k -> StructPieces] : k \in 0..MaxStructPieces}
    /\ struct_content = <<>>
    /\ structs = <<>>
    /\ result = <<>>
    /\ StripIdle
    /\ CasesIdle
    /\ PreIdle
    /\ CallsIdle
    /\ TablesIdle
    /\ MagicIdle
    /\ DefineIdle
    /\ ValuesIdle
    /\ LoopIdle

\* lines 84-114
extract_structs_from_file ==
    /\ tool = "struct" /\ pc = "read"
    /\ struct_content' = Flatten(struct_source)
    /\ structs' = StructsFrom(Flatten(struct_source), 1)
    /\ pc' = "returned"
    /\ UNCHANGED <<tool, result, struct_source>>
    /\ UNCHANGED <<stripVars, caseVars, preVars, callVars, tableVars,
                   magicVars, defineVars, valueVars, loopVars>>

StructNext == extract_structs_from_file

StructSpec == StructInit /\ [][StructNext]_vars

(***************************************************************************)
(* Properties of extract_structs_from_file                                 *)
(***************************************************************************)
\* the file is one declaration: an opening, member declarations, and the
\* closing that goes with the opening
IsOneDeclaration(q) ==
    /\ Len(q) >= 2
    /\ \/ q[1] = TypedefOpen /\ q[Len(q)] = AliasClose
       \/ q[1] = StructOpen /\ q[Len(q)] = PlainClose
    /\ \A k \in 2..(Len(q) - 1) : q[k] \in MemberPieces

MemberName(piece) ==
    CASE piece = PlainMember -> "id"
      [] piece = ArrayMember -> "name"
      [] piece = PointerMember -> "p"
      [] OTHER -> "f"

MemberType(piece) ==
    CASE piece = PlainMember -> <<"int">>
      [] piece = ArrayMember -> <<"char", "[", "32", "]">>
      [] piece = PointerMember -> <<"char", SPACE, "*">>
      [] OTHER -> <<"unsigned", SPACE, "int", SPACE, ":", SPACE, "3">>

\* C17: a declaration whose body has no nested braces gives exactly one
\* declaration, named by the typedef alias or by the struct name, whose
\* members are the member declarations of the body, each once, in their
\* order, the array suffix and the bit-field width folded into the type.
MembersInDeclarationOrder ==
    (tool = "struct" /\ pc = "returned" /\ IsOneDeclaration(struct_source))
    => /\ Len(structs) = 1
       /\ structs[1].struct_name =
             (IF struct_source[1] = TypedefOpen THEN "Sample" ELSE "P")
       /\ structs[1].members =
             [k \in 1..(Len(struct_source) - 2) |->
                 [type |-> MemberType(struct_source[k + 1]),
                  name |-> MemberName(struct_source[k + 1])]]

\* C23: nothing that stands only inside a comment of the file is reported:
\* no declaration is named Q and no member is named old.
NothingFromComments ==
    (tool = "struct" /\ pc = "returned") =>
        \A k \in 1..Len(structs) :
           /\ structs[k].struct_name # "Q"
           /\ \A m \in 1..Len(structs[k].members) :
                 structs[k].members[m].name # "old"

(***************************************************************************)
(* Get_Define.py.  A line is a sequence of tokens: "#define", a blank (a    *)
(* run of blanks and tabs), a letter, a digit, the characters ( ) \ and    *)
(* the comments "/*c*/" and "//".  A define is the sequence of its tokens,  *)
(* its lines separated by NEWLINE, INDENT being the four blanks of line    *)
(* 195.                                                                    *)
(***************************************************************************)
INDENT == "    "
BLOCK == "/*c*/"
SLASHES == "//"
DefineLetters == {"A", "F", "x"}
DefineDigits == {"1"}

\* lines 204-233 on one line: a block comment within the line goes, a line
\* comment goes with the rest of the line
RECURSIVE DefineStripLine(_)
DefineStripLine(line) ==
    IF line = <<>> THEN <<>>
    ELSE IF Head(line) = SLASHES THEN <<>>
    ELSE IF Head(line) = BLOCK THEN DefineStripLine(Tail(line))
    ELSE <<Head(line)>> \o DefineStripLine(Tail(line))

\* lines 204-233, then code_without_comments.split('\n') of line 121
define_remove_c_comments(define_lines) ==
    [k \in 1..Len(define_lines) |-> DefineStripLine(define_lines[k])]

\* str.rstrip()
RECURSIVE rstrip(_)
rstrip(line) ==
    IF line # <<>> /\ line[Len(line)] = SPACE
    THEN rstrip(SubSeq(line, 1, Len(line) - 1)) ELSE line

\* str.lstrip()
RECURSIVE lstrip(_)
lstrip(line) ==
    IF line # <<>> /\ Head(line) = SPACE THEN lstrip(Tail(line)) ELSE line

\* str.strip()
strip(line) == lstrip(rstrip(line))

\* str.endswith('\\')
EndsWithBackslash(line) == line # <<>> /\ line[Len(line)] = BACKSLASH

\* line 129: re.match(r'^\s*#define\s+', line)
StartsDefine(line) ==
    LET j == SkipSpaces(line, 1)
    IN  At(line, j, "#define") /\ At(line, j + 1, SPACE)

\* lines 133-136: the index of the last line of the block that starts at i
RECURSIVE BlockEnd(_, _)
BlockEnd(ls, i) ==
    IF EndsWithBackslash(rstrip(strip(ls[i]))) /\ i + 1 <= Len(ls)
    THEN BlockEnd(ls, i + 1) ELSE i

\* the loop of lines 125-140 without the `i += 1` of line 134: the lines of
\* a block are looked at again
RECURSIVE DefinesFromEveryLine(_, _)
DefinesFromEveryLine(ls, i) ==
    IF i > Len(ls) THEN <<>>
    ELSE IF StartsDefine(strip(ls[i]))
         THEN <<SubSeq(ls, i, BlockEnd(ls, i))>>
                 \o DefinesFromEveryLine(ls, i + 1)
    ELSE DefinesFromEveryLine(ls, i + 1)

\* lines 125-140: the blocks found from line i on, each the sequence of its
\* lines
RECURSIVE DefinesFrom(_, _)
DefinesFrom(ls, i) ==
    IF i > Len(ls) THEN <<>>
    ELSE IF StartsDefine(strip(ls[i]))
         THEN <<SubSeq(ls, i, BlockEnd(ls, i))>>
                 \o DefinesFrom(ls, BlockEnd(ls, i) + 1)
    ELSE DefinesFrom(ls, i + 1)

\* lines 173-181
NormalizedLine(line) ==
    IF EndsWithBackslash(rstrip(line))
    THEN rstrip(SubSeq(rstrip(line), 1, Len(rstrip(line)) - 1))
    ELSE rstrip(line)

\* lines 191-198: the continuation lines from the k-th on
RECURSIVE ContinuationFrom(_, _)
ContinuationFrom(normalized_lines, k) ==
    IF k > Len(normalized_lines) THEN <<>>
    ELSE <<INDENT>> \o strip(normalized_lines[k])
            \o (IF k = Len(normalized_lines) THEN <<>>
                ELSE <<SPACE, BACKSLASH, NEWLINE>>)
            \o ContinuationFrom(normalized_lines, k + 1)

\* lines 159-202, of a block given as its lines
normalize_define(block) ==
    LET normalized_lines == [k \in 1..Len(block) |-> NormalizedLine(block[k])]
    IN  IF Len(normalized_lines) > 1
        THEN normalized_lines[1] \o <<SPACE, BACKSLASH, NEWLINE>>
                \o ContinuationFrom(normalized_lines, 2)
        ELSE normalized_lines[1]

\* \s* of line 151, which NEWLINE and INDENT match too
RECURSIVE SkipBlank(_, _)
SkipBlank(d, j) ==
    IF j <= Len(d) /\ d[j] \in {SPACE, NEWLINE, INDENT}
    THEN SkipBlank(d, j + 1) ELSE j

\* [A-Za-z0-9_]* from j on
RECURSIVE NameEnd(_, _)
NameEnd(d, j) ==
    IF j <= Len(d) /\ d[j] \in DefineLetters \cup DefineDigits
    THEN NameEnd(d, j + 1) ELSE j

\* line 151: the index after NAME in ^\s*#define\s+NAME, 0 without it
AfterName(d) ==
    LET j == SkipBlank(d, 1)
        n == SkipBlank(d, j + 1)
    IN  IF /\ At(d, j, "#define") /\ n > j + 1
           /\ n <= Len(d) /\ d[n] \in DefineLetters
        THEN NameEnd(d, n) ELSE 0

\* lines 151-152: re.match(macro_pattern, normalized_define)
IsMacro(d) == AfterName(d) # 0 /\ At(d, SkipBlank(d, AfterName(d)), "(")

\* lines 145-155
RECURSIVE Classified(_, _)
Classified(defines, macro) ==
    IF defines = <<>> THEN <<>>
    ELSE (IF IsMacro(normalize_define(Head(defines))) = macro
          THEN <<normalize_define(Head(defines))>> ELSE <<>>)
            \o Classified(Tail(defines), macro)

(***************************************************************************)
(* Specification of extract_defines: the code is any text of at most       *)
(* MaxDefineLines lines of DefineLineSet.                                  *)
(***************************************************************************)
DefineLineSet ==
    { <<"#define", SPACE, "A", SPACE, "1">>,
      <<"#define", SPACE, "F", "(", "x", ")", SPACE, "x">>,
      <<"#define", SPACE, "A", SPACE, "(", "1", ")">>,
      <<SPACE, "#define", SPACE, "F", "(", "x", ")", SPACE, BACKSLASH>>,
      <<"#define", SPACE, "A", SPACE, BACKSLASH, SPACE>>,
      <<SPACE, "x", SPACE, BACKSLASH>>,
      <<"(", "x", ")", SLASHES, BACKSLASH>>,
      <<"#define", SPACE, "A", BLOCK, "(", "1", ")">>,
      <<"#define", SPACE, "1", "(", "x", ")">> }

DefineInit ==
    /\ tool = "define"
    /\ pc = "read"
    /\ define_code \in
          UNION {[1..k -> DefineLineSet] : k \in 0..MaxDefineLines}
    /\ define_definitions = <<>>
    /\ define_macros = <<>>
    /\ result = <<>>
    /\ StripIdle
    /\ CasesIdle
    /\ PreIdle
    /\ CallsIdle
    /\ TablesIdle
    /\ MagicIdle
    /\ StructIdle
    /\ ValuesIdle
    /\ LoopIdle

\* lines 100-157
extract_defines ==
    /\ tool = "define" /\ pc = "read"
    /\ LET defines == DefinesFrom(define_remove_c_comments(define_code), 1)
       IN  /\ define_definitions' = Classified(defines, FALSE)
           /\ define_macros' = Classified(defines, TRUE)
    /\ pc' = "returned"
    /\ UNCHANGED <<tool, result, define_code>>
    /\ UNCHANGED <<stripVars, caseVars, preVars, callVars, tableVars,
                   magicVars, structVars, valueVars, loopVars>>

DefineNext == extract_defines

DefineSpec == DefineInit /\ [][DefineNext]_vars

(***************************************************************************)
(* Properties of extract_defines                                           *)
(***************************************************************************)
\* the token that follows NAME in a define, "" when nothing follows
AfterNameToken(d) ==
    IF AfterName(d) # 0 /\ AfterName(d) <= Len(d) THEN d[AfterName(d)] ELSE ""

\* C18: a define is a function-like macro exactly when "(" follows its NAME
\* with no white space between; every other define, `#define NAME (expr)`
\* among them, is a simple definition.
MacroIffParenAfterName ==
    (tool = "define" /\ pc = "returned")
    => /\ \A k \in 1..Len(define_macros) :
             AfterNameToken(define_macros[k]) = "("
       /\ \A k \in 1..Len(define_definitions) :
             AfterNameToken(define_definitions[k]) # "("

\* line k ends with a backslash once its trailing white space is trimmed
Continues(ls, k) == EndsWithBackslash(rstrip(ls[k]))

\* line k is a #define line
IsDefineLine(ls, k) == StartsDefine(strip(ls[k]))

\* line i is a continuation line of a definition that starts above it
RECURSIVE Consumed(_, _)
Consumed(ls, i) ==
    /\ i > 1
    /\ Continues(ls, i - 1)
    /\ IsDefineLine(ls, i - 1) \/ Consumed(ls, i - 1)

\* the first line from i on that does not continue, the last line of the
\* input when every line does
SpanEnd(ls, i) ==
    LET ends == {k \in i..Len(ls) : ~ Continues(ls, k) \/ k = Len(ls)}
    IN  CHOOSE k \in ends : \A j \in ends : k <= j

\* the entries the #define lines from i on are to give, in file order
RECURSIVE EntriesFrom(_, _)
EntriesFrom(ls, i) ==
    IF i > Len(ls) THEN <<>>
    ELSE (IF IsDefineLine(ls, i) /\ ~ Consumed(ls, i)
          THEN <<normalize_define(SubSeq(ls, i, SpanEnd(ls, i)))>>
          ELSE <<>>) \o EntriesFrom(ls, i + 1)

\* the sequence e is the sequences a and b shuffled, each in its order
RECURSIVE IsInterleaving(_, _, _)
IsInterleaving(e, a, b) ==
    IF e = <<>> THEN a = <<>> /\ b = <<>>
    ELSE \/ a # <<>> /\ Head(a) = Head(e)
            /\ IsInterleaving(Tail(e), Tail(a), b)
         \/ b # <<>> /\ Head(b) = Head(e)
            /\ IsInterleaving(Tail(e), a, Tail(b))

\* C24: every #define line that is not a continuation line of a definition
\* above it gives one entry in one of the two lists, each list in file
\* order; the entry is the #define line and the lines after it up to the
\* first that does not end with a backslash, or the end of the input; a
\* continuation line gives no entry of its own.
OneEntryPerDefine ==
    (tool = "define" /\ pc = "returned") =>
        IsInterleaving(EntriesFrom(define_remove_c_comments(define_code), 1),
                       define_definitions, define_macros)

\* a definition of several lines whose continuation is itself a #define
\* line, with an entry in each list
OneEntryPerDefineWitness ==
    /\ tool = "define" /\ pc = "returned"
    /\ define_definitions # <<>> /\ define_macros # <<>>
    /\ LET ls == define_remove_c_comments(define_code)
       IN  \E i \in 1..Len(ls) : IsDefineLine(ls, i) /\ Consumed(ls, i)

(***************************************************************************)
(* Get_Struct_Value.py.  An initializer is a sequence of characters: the   *)
(* braces, the comma, a blank and the digit 1; a value is the sequence of  *)
(* its characters, "" the empty one.                                       *)
(***************************************************************************)
\* lines 71-73 and 108-110: the outer braces go, with the blanks around
StripOuterBraces(init) ==
    LET t == strip(init)
    IN  IF t # <<>> /\ Head(t) = "{" /\ t[Len(t)] = "}"
        THEN strip(SubSeq(t, 2, Len(t) - 1)) ELSE t

\* lines 80-88: the loop over the characters from the k-th on
RECURSIVE SplitFrom(_, _, _, _, _)
SplitFrom(s, k, bracket_count, current_value, values) ==
    IF k > Len(s)
    THEN [values |-> values, current_value |-> current_value]
    ELSE IF s[k] = "{"
         THEN SplitFrom(s, k + 1, bracket_count + 1,
                        Append(current_value, s[k]), values)
    ELSE IF s[k] = "}"
         THEN SplitFrom(s, k + 1, bracket_count - 1,
                        Append(current_value, s[k]), values)
    ELSE IF s[k] = "," /\ bracket_count = 0
         THEN SplitFrom(s, k + 1, bracket_count, <<>>,
                        Append(values, strip(current_value)))
    ELSE SplitFrom(s, k + 1, bracket_count, Append(current_value, s[k]),
                   values)

\* lines 75-91
SplitValues(init) ==
    LET r == SplitFrom(StripOuterBraces(init), 1, 0, <<>>, <<>>)
    IN  IF strip(r.current_value) # <<>>
        THEN Append(r.values, strip(r.current_value)) ELSE r.values

\* lines 93-98: the dict of member name to value, as a function
BindValues(values, mems) ==
    [nm \in {mems[i] : i \in 1..Len(mems)} |->
        LET i == CHOOSE j \in 1..Len(mems) :
                    mems[j] = nm /\ \A h \in (j + 1)..Len(mems) : mems[h] # nm
        IN  IF i <= Len(values) THEN values[i] ELSE <<>>]

\* lines 66-101
parse_init_values(init, mems) == BindValues(SplitValues(init), mems)

\* lines 116-132: the loop over the characters from the k-th on
RECURSIVE ElementsFrom(_, _, _, _, _, _)
ElementsFrom(s, k, bracket_count, current_element, elements, mems) ==
    IF k > Len(s) THEN elements
    ELSE IF s[k] = "{"
         THEN ElementsFrom(s, k + 1, bracket_count + 1,
                           IF bracket_count + 1 > 0
                           THEN Append(current_element, s[k])
                           ELSE current_element,
                           elements, mems)
    ELSE IF s[k] = "}"
         THEN IF bracket_count - 1 = 0
              THEN ElementsFrom(s, k + 1, 0, <<>>,
                      Append(elements,
                             parse_init_values(Append(current_element, s[k]),
                                               mems)),
                      mems)
              ELSE ElementsFrom(s, k + 1, bracket_count - 1,
                      current_element \o
                         (IF bracket_count - 1 > 0 THEN <<s[k], s[k]>>
                          ELSE <<s[k]>>),
                      elements, mems)
    ELSE IF s[k] = "," /\ bracket_count = 0
         THEN ElementsFrom(s, k + 1, bracket_count, current_element,
                           elements, mems)
    ELSE ElementsFrom(s, k + 1, bracket_count,
                      IF bracket_count > 0 THEN Append(current_element, s[k])
                      ELSE current_element,
                      elements, mems)

\* lines 103-134
parse_array_init_values(init, mems) ==
    ElementsFrom(StripOuterBraces(init), 1, 0, <<>>, <<>>, mems)

(***************************************************************************)
(* Specification of the two parsers: the initializer is any text of at     *)
(* most MaxInitLen characters, the members one of MemberLists.             *)
(***************************************************************************)
InitChars == {"{", "}", ",", "1", SPACE}
MemberLists == {<<"a", "b">>, <<"a", "b", "c">>}

ValuesInit ==
    /\ tool = "values"
    /\ pc = "read"
    /\ init_str \in UNION {[1..k -> InitChars] : k \in 0..MaxInitLen}
    /\ members \in MemberLists
    /\ member_values = <<>>
    /\ array_elements = <<>>
    /\ result = <<>>
    /\ StripIdle
    /\ CasesIdle
    /\ PreIdle
    /\ CallsIdle
    /\ TablesIdle
    /\ MagicIdle
    /\ StructIdle
    /\ DefineIdle
    /\ LoopIdle

\* lines 66-101
ParseInitValues ==
    /\ tool = "values" /\ pc = "read"
    /\ member_values' = parse_init_values(init_str, members)
    /\ pc' = "parsed"
    /\ UNCHANGED <<tool, result, init_str, members, array_elements>>
    /\ UNCHANGED <<stripVars, caseVars, preVars, callVars, tableVars,
                   magicVars, structVars, defineVars, loopVars>>

\* lines 103-134
ParseArrayInitValues ==
    /\ tool = "values" /\ pc = "read"
    /\ array_elements' = parse_array_init_values(init_str, members)
    /\ pc' = "array_parsed"
    /\ UNCHANGED <<tool, result, init_str, members, member_values>>
    /\ UNCHANGED <<stripVars, caseVars, preVars, callVars, tableVars,
                   magicVars, structVars, defineVars, loopVars>>

ValuesNext == ParseInitValues \/ ParseArrayInitValues

ValuesSpec == ValuesInit /\ [][ValuesNext]_vars

(***************************************************************************)
(* Properties of the two parsers                                           *)
(***************************************************************************)
\* the count of { less } over the first k characters
RECURSIVE BraceDepth(_, _)
BraceDepth(s, k) ==
    IF k = 0 THEN 0
    ELSE BraceDepth(s, k - 1)
            + (IF s[k] = "{" THEN 1 ELSE IF s[k] = "}" THEN -1 ELSE 0)

\* s is one braced initializer: it opens with "{" and the "}" that closes
\* it is its last character
IsBraced(s) ==
    /\ Len(s) >= 2 /\ s[1] = "{"
    /\ BraceDepth(s, Len(s)) = 0
    /\ \A k \in 1..(Len(s) - 1) : BraceDepth(s, k) >= 1

\* the places of the commas of s at depth d, in order, then Len(s) + 1
RECURSIVE CommasFrom(_, _, _)
CommasFrom(s, k, d) ==
    IF k > Len(s) THEN <<Len(s) + 1>>
    ELSE (IF s[k] = "," /\ BraceDepth(s, k) = d THEN <<k>> ELSE <<>>)
            \o CommasFrom(s, k + 1, d)

\* the i-th top-level value of the braced initializer s, "" beyond the last
TopLevelValue(s, i) ==
    LET inner == SubSeq(s, 2, Len(s) - 1)
        cs == CommasFrom(inner, 1, 0)
    IN  IF i > Len(cs) THEN <<>>
        ELSE strip(SubSeq(inner, IF i = 1 THEN 1 ELSE cs[i - 1] + 1,
                          cs[i] - 1))

\* the binding the braced initializer s is to give
Binding(s, mems) ==
    [nm \in {mems[i] : i \in 1..Len(mems)} |->
        TopLevelValue(s, CHOOSE j \in 1..Len(mems) : mems[j] = nm)]

\* the top-level {...} elements of the braced initializer s, from its k-th
\* character on
RECURSIVE TopElementsFrom(_, _)
TopElementsFrom(s, k) ==
    IF k >= Len(s) THEN <<>>
    ELSE IF s[k] = "{" /\ BraceDepth(s, k) = 2
         THEN LET e == CHOOSE j \in k..Len(s) :
                          /\ BraceDepth(s, j) = 1
                          /\ \A h \in k..(j - 1) : BraceDepth(s, h) >= 2
              IN  <<SubSeq(s, k, e)>> \o TopElementsFrom(s, e + 1)
    ELSE TopElementsFrom(s, k + 1)

\* C25: the i-th top-level value of a braced initializer, commas inside
\* nested braces not splitting, is bound to the i-th member; a member
\* beyond the values is bound to ""; values beyond the members are left
\* out; of an array initializer each top-level {...} element gives one
\* such binding, in order.
ValuesBoundByPosition ==
    /\ (tool = "values" /\ pc = "parsed" /\ IsBraced(strip(init_str))) =>
          member_values = Binding(strip(init_str), members)
    /\ (tool = "values" /\ pc = "array_parsed" /\ IsBraced(strip(init_str)))
          => LET es == TopElementsFrom(strip(init_str), 2)
             IN  array_elements = [k \in 1..Len(es) |-> Binding(es[k], members)]

(***************************************************************************)
(* The scanning loops, one iteration per step: the while loops of          *)
(* find_table_declarations (Get_Table.py, lines 125-163) and of            *)
(* extract_defines (Get_Define.py, lines 125-140), and the for and while   *)
(* loops of extract_function_definitions (Get_Func_Call.py, lines 94-111). *)
(* loop_i is the index the loop moves (i, or pos), counted from 1.  Each   *)
(* loop starts where the code enters it: find_table_declarations with its  *)
(* lines split (line 118), extract_defines with its lines split (line      *)
(* 121), extract_function_definitions with its matches listed (line 92).   *)
(***************************************************************************)
LoopTools == {"table_loop", "define_loop", "brace_loop"}

\* Get_Table.py lines 121-133 and 158-163: the outer loop looks at line i
TableLoopOuter ==
    /\ tool = "table_loop" /\ pc = "outer" /\ loop_i <= Len(table_code)
    /\ LET line == table_code[loop_i]
       IN  IF ~ is_table_declaration_start(line)
           THEN UNCHANGED <<pc, loop_count, loop_block, loop_found>>
           ELSE IF HasOpenBrace(line)
                THEN /\ loop_block' = <<line>>
                     /\ loop_count' = BraceDelta(line)
                     /\ pc' = "braces"
                     /\ UNCHANGED loop_found
           ELSE /\ loop_found' =
                      IF Has(line, ";") /\ is_valid_table_declaration(<<line>>)
                      THEN Append(loop_found, Table(loop_i, <<line>>))
                      ELSE loop_found
                /\ UNCHANGED <<pc, loop_count, loop_block>>
    /\ loop_i' = loop_i + 1
    /\ UNCHANGED <<tool, result, table_code, tables, loop_start,
                   loop_matches>>
    /\ UNCHANGED <<stripVars, caseVars, preVars, callVars, magicVars,
                   structVars, defineVars, valueVars>>

\* Get_Table.py line 136: the test of the first inner loop
CollectingBraces == loop_i <= Len(table_code) /\ loop_count > 0

\* Get_Table.py lines 143-146: the tests before the second inner loop
CollectingToSemicolon ==
    /\ loop_i <= Len(table_code) /\ loop_count = 0
    /\ ~ EndsWithSemicolon(loop_block[Len(loop_block)])

\* Get_Table.py lines 136-140: one iteration of the first inner loop
TableLoopBraces ==
    /\ tool = "table_loop" /\ pc = "braces" /\ CollectingBraces
    /\ loop_block' = Append(loop_block, table_code[loop_i])
    /\ loop_count' = loop_count + BraceDelta(table_code[loop_i])
    /\ loop_i' = loop_i + 1
    /\ UNCHANGED <<tool, pc, result, table_code, tables, loop_start,
                   loop_matches, loop_found>>
    /\ UNCHANGED <<stripVars, caseVars, preVars, callVars, magicVars,
                   structVars, defineVars, valueVars>>

\* Get_Table.py lines 146-152: one iteration of the second inner loop
TableLoopSemicolon ==
    /\ tool = "table_loop"
    /\ \/ pc = "braces" /\ ~ CollectingBraces /\ CollectingToSemicolon
       \/ pc = "semicolon" /\ loop_i <= Len(table_code)
    /\ loop_block' = Append(loop_block, table_code[loop_i])
    /\ loop_i' = loop_i + 1
    /\ pc' = IF EndsWithSemicolon(table_code[loop_i]) THEN "close"
             ELSE "semicolon"
    /\ UNCHANGED <<tool, result, table_code, tables, loop_start, loop_count,
                   loop_matches, loop_found>>
    /\ UNCHANGED <<stripVars, caseVars, preVars, callVars, magicVars,
                   structVars, defineVars, valueVars>>

\* Get_Table.py lines 154-157 and 163: the declaration is added and the
\* outer loop moves on
TableLoopClose ==
    /\ tool = "table_loop"
    /\ \/ pc = "braces" /\ ~ CollectingBraces /\ ~ CollectingToSemicolon
       \/ pc = "semicolon" /\ loop_i > Len(table_code)
       \/ pc = "close"
    /\ loop_found' =
          IF is_valid_table_declaration(loop_block)
          THEN Append(loop_found,
                      Table(loop_i - Len(loop_block), loop_block))
          ELSE loop_found
    /\ loop_block' = <<>>
    /\ loop_count' = 0
    /\ loop_i' = loop_i + 1
    /\ pc' = "outer"
    /\ UNCHANGED <<tool, result, table_code, tables, loop_start,
                   loop_matches>>
    /\ UNCHANGED <<stripVars, caseVars, preVars, callVars, magicVars,
                   structVars, defineVars, valueVars>>

\* Get_Table.py lines 121 and 165: the outer loop ends
TableLoopEnd ==
    /\ tool = "table_loop" /\ pc = "outer" /\ loop_i > Len(table_code)
    /\ tables' = loop_found
    /\ pc' = "finished"
    /\ UNCHANGED <<tool, result, table_code, loopVars>>
    /\ UNCHANGED <<stripVars, caseVars, preVars, callVars, magicVars,
                   structVars, defineVars, valueVars>>

\* Get_Define.py line 133: the test of the inner loop, on the last line of
\* the block
DefineContinues ==
    /\ EndsWithBackslash(rstrip(strip(define_code[loop_i])))
    /\ loop_i + 1 <= Len(define_code)

\* Get_Define.py lines 125-140: the outer loop looks at line i; a #define
\* line that continues takes the first iteration of the inner loop with it
DefineLoopOuter ==
    /\ tool = "define_loop" /\ pc = "outer" /\ loop_i <= Len(define_code)
    /\ IF ~ StartsDefine(strip(define_code[loop_i]))
       THEN UNCHANGED <<pc, loop_block, loop_found>>
       ELSE IF DefineContinues
            THEN /\ loop_block' =
                       <<define_code[loop_i], define_code[loop_i + 1]>>
                 /\ pc' = "continuation"
                 /\ UNCHANGED loop_found
       ELSE /\ loop_found' = Append(loop_found, <<define_code[loop_i]>>)
            /\ UNCHANGED <<pc, loop_block>>
    /\ loop_i' = loop_i + 1
    /\ UNCHANGED <<tool, result, defineVars, loop_count, loop_start,
                   loop_matches>>
    /\ UNCHANGED <<stripVars, caseVars, preVars, callVars, tableVars,
                   magicVars, structVars, valueVars>>

\* Get_Define.py lines 133-140: one more iteration of the inner loop, or
\* the block is added and the outer loop moves on
DefineLoopContinue ==
    /\ tool = "define_loop" /\ pc = "continuation"
    /\ IF DefineContinues
       THEN /\ loop_block' = Append(loop_block, define_code[loop_i + 1])
            /\ UNCHANGED <<pc, loop_found>>
       ELSE /\ loop_found' = Append(loop_found, loop_block)
            /\ loop_block' = <<>>
            /\ pc' = "outer"
    /\ loop_i' = loop_i + 1
    /\ UNCHANGED <<tool, result, defineVars, loop_count, loop_start,
                   loop_matches>>
    /\ UNCHANGED <<stripVars, caseVars, preVars, callVars, tableVars,
                   magicVars, structVars, valueVars>>

\* Get_Define.py lines 125 and 142: the loop ends with the blocks in
\* `defines`
DefineLoopEnd ==
    /\ tool = "define_loop" /\ pc = "outer" /\ loop_i > Len(define_code)
    /\ pc' = "finished"
    /\ UNCHANGED <<tool, result, defineVars, loopVars>>
    /\ UNCHANGED <<stripVars, caseVars, preVars, callVars, tableVars,
                   magicVars, structVars, valueVars>>

\* Get_Func_Call.py line 92: list(re.finditer(pattern, content)), the
\* matches from p on, each with its name and the place of its "{"
RECURSIVE MatchesFrom(_, _)
MatchesFrom(c, p) ==
    IF NextDefMatch(c, p) = 0 THEN <<>>
    ELSE <<DefMatchAt(c, NextDefMatch(c, p))>>
            \o MatchesFrom(c, DefMatchAt(c, NextDefMatch(c, p)).brace + 1)

\* Get_Func_Call.py lines 94-100: the for loop takes the next match
BraceLoopMatch ==
    /\ tool = "brace_loop" /\ pc = "matches"
    /\ loop_matches # <<>>
    /\ loop_start' = loop_matches[1].brace
    /\ loop_i' = loop_matches[1].brace + 1
    /\ loop_count' = 1
    /\ pc' = "braces"
    /\ UNCHANGED <<tool, result, content, function_definitions,
                   function_calls, loop_block, loop_matches, loop_found>>
    /\ UNCHANGED <<stripVars, caseVars, preVars, tableVars, magicVars,
                   structVars, defineVars, valueVars>>

\* Get_Func_Call.py lines 102-107 without the `pos += 1` of line 107
BraceLoopIterStuck ==
    /\ tool = "brace_loop" /\ pc = "braces"
    /\ loop_i <= Len(content) /\ loop_count > 0
    /\ loop_count' = IF content[loop_i] = "{" THEN loop_count + 1
                     ELSE IF content[loop_i] = "}" THEN loop_count - 1
                     ELSE loop_count
    /\ UNCHANGED <<tool, pc, result, content, function_definitions,
                   function_calls, loop_i, loop_start, loop_block,
                   loop_matches, loop_found>>
    /\ UNCHANGED <<stripVars, caseVars, preVars, tableVars, magicVars,
                   structVars, defineVars, valueVars>>

\* Get_Func_Call.py lines 102-107: one iteration of the while loop
BraceLoopIter ==
    /\ tool = "brace_loop" /\ pc = "braces"
    /\ loop_i <= Len(content) /\ loop_count > 0
    /\ loop_count' = IF content[loop_i] = "{" THEN loop_count + 1
                     ELSE IF content[loop_i] = "}" THEN loop_count - 1
                     ELSE loop_count
    /\ loop_i' = loop_i + 1
    /\ UNCHANGED <<tool, pc, result, content, function_definitions,
                   function_calls, loop_start, loop_block, loop_matches,
                   loop_found>>
    /\ UNCHANGED <<stripVars, caseVars, preVars, tableVars, magicVars,
                   structVars, defineVars, valueVars>>

\* Get_Func_Call.py lines 102 and 109-111: the while loop ends
BraceLoopClose ==
    /\ tool = "brace_loop" /\ pc = "braces"
    /\ ~ (loop_i <= Len(content) /\ loop_count > 0)
    /\ loop_found' =
          IF loop_count = 0
          THEN DictPut(loop_found, loop_matches[1].name,
                       SubSeq(content, loop_start, loop_i - 1))
          ELSE loop_found
    /\ loop_matches' = Tail(loop_matches)
    /\ pc' = "matches"
    /\ UNCHANGED <<tool, result, content, function_definitions,
                   function_calls, loop_i, loop_count, loop_start,
                   loop_block>>
    /\ UNCHANGED <<stripVars, caseVars, preVars, tableVars, magicVars,
                   structVars, defineVars, valueVars>>

\* Get_Func_Call.py lines 94 and 113: no match is left
BraceLoopEnd ==
    /\ tool = "brace_loop" /\ pc = "matches"
    /\ loop_matches = <<>>
    /\ function_definitions' = loop_found
    /\ pc' = "finished"
    /\ UNCHANGED <<tool, result, content, function_calls, loopVars>>
    /\ UNCHANGED <<stripVars, caseVars, preVars, tableVars, magicVars,
                   structVars, defineVars, valueVars>>

(***************************************************************************)
(* Specification of the scans: each of the three loops on any input of at  *)
(* most MaxLoopLines lines or MaxLoopItems items, and preprocess_code on   *)
(* its inputs.  The interpreter runs the loop it is in: a scan that can    *)
(* take a step takes one.                                                  *)
(***************************************************************************)
LoopStart ==
    /\ result = <<>>
    /\ loop_count = 0
    /\ loop_start = 0
    /\ loop_block = <<>>
    /\ loop_found = <<>>
    /\ StripIdle
    /\ CasesIdle
    /\ PreIdle
    /\ MagicIdle
    /\ StructIdle
    /\ ValuesIdle

\* Get_Table.py lines 117-119
TableLoopInit ==
    /\ tool = "table_loop"
    /\ pc = "outer"
    /\ table_code \in UNION {[1..k -> TableLineSet] : k \in 0..MaxLoopLines}
    /\ tables = <<>>
    /\ loop_i = 1
    /\ loop_matches = <<>>
    /\ LoopStart
    /\ CallsIdle
    /\ DefineIdle

\* Get_Define.py lines 121-123
DefineLoopInit ==
    /\ tool = "define_loop"
    /\ pc = "outer"
    /\ define_code \in
          UNION {[1..k -> DefineLineSet] : k \in 0..MaxLoopLines}
    /\ define_definitions = <<>>
    /\ define_macros = <<>>
    /\ loop_i = 1
    /\ loop_matches = <<>>
    /\ LoopStart
    /\ CallsIdle
    /\ TablesIdle

\* Get_Func_Call.py lines 86-92
BraceLoopInit ==
    /\ tool = "brace_loop"
    /\ pc = "matches"
    /\ content \in ContentsUpTo(MaxLoopItems)
    /\ function_definitions = <<>>
    /\ function_calls = <<>>
    /\ loop_i = 0
    /\ loop_matches = MatchesFrom(content, 1)
    /\ LoopStart
    /\ TablesIdle
    /\ DefineIdle

TableLoopNext ==
    \/ TableLoopOuter
    \/ TableLoopBraces
    \/ TableLoopSemicolon
    \/ TableLoopClose
    \/ TableLoopEnd

DefineLoopNext ==
    \/ DefineLoopOuter
    \/ DefineLoopContinue
    \/ DefineLoopEnd

BraceLoopNext ==
    \/ BraceLoopMatch
    \/ BraceLoopIter
    \/ BraceLoopClose
    \/ BraceLoopEnd

LoopInit == TableLoopInit \/ DefineLoopInit \/ BraceLoopInit \/ PreInit

LoopNext == TableLoopNext \/ DefineLoopNext \/ BraceLoopNext \/ PreNext

LoopSpec == LoopInit /\ [][LoopNext]_vars /\ WF_vars(LoopNext)

(***************************************************************************)
(* Properties of the scans                                                 *)
(***************************************************************************)
\* the step is an iteration of one of the while loops
WhileIteration ==
    \/ tool = "table_loop" /\ pc \in {"outer", "braces", "semicolon", "close"}
          /\ pc' # "finished"
    \/ tool = "define_loop" /\ pc \in {"outer", "continuation"}
          /\ pc' # "finished"
    \/ tool = "brace_loop" /\ pc = "braces" /\ pc' = "braces"

\* the scan has returned
ScanOver ==
    \/ tool \in LoopTools /\ pc = "finished"
    \/ tool = "pre" /\ pc = "done"

\* the length of the input the index of the loop runs over
LoopLength ==
    IF tool = "table_loop" THEN Len(table_code)
    ELSE IF tool = "define_loop" THEN Len(define_code)
    ELSE Len(content)

\* C27: every scan comes to its end on every input: each iteration of a
\* while loop moves its index forward, the index stays within one step of
\* the end of the input, the for loop over the matches goes forward through
\* the text, preprocess_code takes the lines one by one, and the scan
\* returns.
EveryScanTerminates ==
    /\ [][WhileIteration => loop_i' > loop_i]_vars
    /\ [][(tool = "brace_loop" /\ pc = "matches" /\ pc' = "braces")
             => loop_start' > loop_start]_vars
    /\ [][(tool = "brace_loop" /\ pc = "braces" /\ pc' = "matches")
             => Len(loop_matches') < Len(loop_matches)]_vars
    /\ [][(tool = "pre" /\ scanned' # scanned) => scanned' = scanned + 1]_vars
    /\ [](tool \in LoopTools => loop_i <= LoopLength + 2)
    /\ <>ScanOver

\* a table that the end of the input cut short and a function body whose
\* brace never closes, both scanned to the end
EveryScanTerminatesWitness ==
    /\ pc = "finished"
    /\ \/ /\ tool = "table_loop" /\ tables # <<>>
          /\ LineDepthAfter(tables[1].table_lines,
                            Len(tables[1].table_lines)) > 0
       \/ /\ tool = "brace_loop" /\ loop_count > 0 /\ loop_i > Len(content)
          /\ loop_matches = <<>>

\* the loops taken step by step give what the functions give
LoopsAgree ==
    /\ (tool = "table_loop" /\ pc = "finished") =>
          tables = find_table_declarations(table_code)
    /\ (tool = "define_loop" /\ pc = "finished") =>
          loop_found = DefinesFrom(define_code, 1)
    /\ (tool = "brace_loop" /\ pc = "finished") =>
          function_definitions = extract_function_definitions(content)

(***************************************************************************)
(* The tools together                                                      *)
(***************************************************************************)
Init == StripInit \/ CasesInit \/ PreInit \/ CallsInit \/ TablesInit
           \/ MagicInit \/ StructInit \/ DefineInit \/ ValuesInit
           \/ TableLoopInit \/ DefineLoopInit \/ BraceLoopInit

Next == StripNext \/ CasesNext \/ PreNext \/ CallsNext \/ TablesNext
           \/ MagicNext \/ StructNext \/ DefineNext \/ ValuesNext
           \/ TableLoopNext \/ DefineLoopNext \/ BraceLoopNext

Spec == Init /\ [][Next]_vars

====
